---- MODULE Spec2Model ----
(***************************************************************************)
(* simplefs: the bitmap allocator, the superblock counters, the inode      *)
(* table, the directory blocks and the create / mkdir protocol, over a     *)
(* block device whose reads, writes and flushes can fail.                  *)
(*                                                                         *)
(* Every C function is an operator from a machine record m (the in-memory  *)
(* superblock info, the device's blocks, the set of blocks written but not *)
(* yet flushed, the VFS inode cache, and the trace of storage steps the    *)
(* call has issued) to the machine record the function leaves behind.  The *)
(* set F names the storage steps that fail during the call.                *)
(*                                                                         *)
(* SpecAlloc runs the four allocator calls with failing storage steps,     *)
(* SpecCreate runs create and mkdir with failing storage steps, SpecClean  *)
(* runs every call without failure, SpecScan runs the two allocations      *)
(* over every bitmap content, SpecCounters runs allocations, create and    *)
(* mkdir from every pair of free counters, SpecLookup runs lookups among   *)
(* creates and mkdirs, and SpecReaddir lists the directories they fill.    *)
(* SpecNames runs create, mkdir and lookup over names of every length up   *)
(* to one past the buffer, SpecFind runs lookups among creates and mkdirs  *)
(* with failing storage steps, SpecMount mounts every superblock image,    *)
(* SpecTable runs create and mkdir on a volume with as many inodes as      *)
(* mkfs.simplefs gives it, SpecIget reads every inode record, and          *)
(* SpecCursor lists and looks up in every directory block from every       *)
(* cursor.  SpecSync runs allocations and frees among syncs and free-space *)
(* queries with failing storage steps, and SpecRace runs two callers of    *)
(* the inode allocator or of create, step by step on the shared state,     *)
(* serialized or not.                                                      *)
(***************************************************************************)
EXTENDS Integers, Sequences, FiniteSets, TLC

(* ----------------------------- bounds -------------------------------- *)
\* mkfs takes nr_inodes = SIMPLEFS_BITS_PER_BLOCK and nr_blocks from the
\* device size; the model scales both down.
NrInodes == 5
NrBlocks == 8
\* SIMPLEFS_MAX_SUBFILES (128) and SIMPLEFS_FILENAME_LEN (28), scaled down.
SIMPLEFS_MAX_SUBFILES == 2
SIMPLEFS_FILENAME_LEN == 3
\* storage steps that may fail in one behaviour of the allocator alone
MaxFaults == 2
\* the most entries a consumer of a directory listing accepts per call
MaxRoom == 2
\* lookups that precede a directory listing
MaxLookups == 1
\* storage steps that may fail in one behaviour of create and mkdir
MaxCreateFaults == 1
\* calls in one behaviour
MaxCalls == 3

(* ------------------------ program constants -------------------------- *)
\* 0xDEADBEEF exceeds the integers TLC handles; kept as its text
SIMPLEFS_MAGIC == "0xDEADBEEF"
SIMPLEFS_BLOCK_SIZE == 4096
SIMPLEFS_SUPERBLOCK_BLOCK == 0
SIMPLEFS_INODE_TABLE_BLOCK == 1
SIMPLEFS_INODE_BITMAP_BLOCK == 2
SIMPLEFS_BLOCK_BITMAP_BLOCK == 3
SIMPLEFS_FIRST_DATA_BLOCK == 4
\* sizeof(struct simplefs_inode): six __le32 fields
SizeofInode == 24
SIMPLEFS_INODES_PER_BLOCK == SIMPLEFS_BLOCK_SIZE \div SizeofInode
SIMPLEFS_BITS_PER_BLOCK == SIMPLEFS_BLOCK_SIZE * 8
SIMPLEFS_MAX_INODES == SIMPLEFS_BITS_PER_BLOCK
\* "reasonable upper bound" on a data block number used by simplefs_iget
IgetBlockLimit == 12800
\* inode numbers and data blocks the formatting tool hands out
RootIno == 1
HelloIno == 2
RootBlock == 4
HelloBlock == 5
ModeDir == 493
ModeHello == 420
HelloSize == 101

VARIABLES
    sbi,      \* struct simplefs_sb_info in memory (sb->s_fs_info)
    dsb,      \* block 0 on the device: the on-disk superblock
    ibm,      \* block 2 on the device: the set bits of the inode bitmap
    bbm,      \* block 3 on the device: the set bits of the block bitmap
    itab,     \* block 1 on the device: the inode records
    data,     \* blocks 4.. on the device
    vol,      \* blocks written to the device but not yet flushed to stable storage
    icache,   \* the VFS inode cache: handles made by simplefs_iget
    stray,    \* blocks other than the inode table that an inode record was written into
    nfaults,  \* storage failures injected so far
    ncalls,   \* calls made so far
    dirfile,  \* the open directory a consumer lists: its cursor and what it got
    procs,    \* two callers that run unserialized: where each is, and its locals
    last      \* the last call: its arguments, result, steps and the state before it

vars ==
    <<sbi, dsb, ibm, bbm, itab, data, vol, icache, stray, nfaults, ncalls, dirfile, procs,
      last>>

(* ----------------------------- names --------------------------------- *)
NameHello == <<"h">>
NameA == <<"a">>
\* a name that does not fit the filename buffer
NameLong == [i \in 1 .. SIMPLEFS_FILENAME_LEN |-> "a"]
Names == {NameHello, NameA, NameLong}
NoName == <<>>

(* ------------------------- on-disk records --------------------------- *)
ZeroInode ==
    [i_mode |-> [fmt |-> "0", perm |-> 0], i_uid |-> 0, i_gid |-> 0,
     i_size |-> 0, i_nlink |-> 0, ei_block |-> 0]

ZeroFile == [inode |-> 0, filename |-> NoName]

Slots == 0 .. (SIMPLEFS_MAX_SUBFILES - 1)

\* a data block: the view as struct simplefs_dir_block, and the file bytes
ZeroBlock == [nr_files |-> 0, files |-> [i \in Slots |-> ZeroFile], text |-> "zero"]

DataBlocks == SIMPLEFS_FIRST_DATA_BLOCK .. (NrBlocks - 1)

(* ----------------------------- results ------------------------------- *)
Ok(v) == [err |-> "OK", val |-> v]
Err(e) == [err |-> e, val |-> 0]
Void == [err |-> "void", val |-> 0]

(* ------------------------- bitmap helpers ---------------------------- *)
\* a clear that leaves the bit as it was
KeepBit(buffer, bit) == buffer

\* a set that leaves the bit as it was
SetNoBit(buffer, bit) == buffer

set_bit_in_buffer(buffer, bit) == buffer \cup {bit}

clear_bit_in_buffer(buffer, bit) == buffer \ {bit}

\* a test that finds every bit set
BitAlwaysSet(buffer, bit) == TRUE

test_bit_in_buffer(buffer, bit) == bit \in buffer

(* ------------------------- storage steps ----------------------------- *)
\* sb_bread: the step fails when F names it; m.ok tells the caller
sb_bread(m, F, lbl) ==
    [m EXCEPT !.trace = Append(@, lbl),
              !.failed = IF lbl \in F THEN @ \cup {lbl} ELSE @,
              !.ok = lbl \notin F]

\* the buffer head bh of the running call now holds a block: m.bufs is the
\* log of the buffers the call got and released
GotBuffer(m, bh) == [m EXCEPT !.bufs = Append(@, <<"sb_bread", bh>>)]

\* brelse(bh)
brelse(m, bh) == [m EXCEPT !.bufs = Append(@, <<"brelse", bh>>)]

\* blkdev_issue_flush: on success everything written so far is stable
FlushEffect(m, F, fl) ==
    [m EXCEPT !.trace = Append(@, fl),
              !.failed = IF fl \in F THEN @ \cup {fl} ELSE @,
              !.vol = IF fl \in F THEN @ ELSE {}]

\* a write that fails after the device has taken the new content
ForceWriteTorn(m, mw, F, blk, wl, fl) ==
    IF wl \in F
    THEN [mw EXCEPT !.trace = Append(m.trace, wl), !.failed = m.failed \cup {wl},
                    !.vol = m.vol \cup {blk}, !.ok = FALSE]
    ELSE LET w == [mw EXCEPT !.trace = Append(m.trace, wl),
                             !.failed = m.failed,
                             !.vol = m.vol \cup {blk}]
         IN [FlushEffect(w, F, fl) EXCEPT !.ok = TRUE]

\* force_write_buffer(bh): mw is m with the buffer's new content in block blk.
\* A failed sync_dirty_buffer leaves the device block as it was (the buffer
\* loses its uptodate flag, so the next sb_bread reads the device again).
force_write_buffer(m, mw, F, blk, wl, fl) ==
    IF wl \in F
    THEN [m EXCEPT !.trace = Append(@, wl), !.failed = @ \cup {wl}, !.ok = FALSE]
    ELSE LET w == [mw EXCEPT !.trace = Append(m.trace, wl),
                             !.failed = m.failed,
                             !.vol = m.vol \cup {blk}]
         IN [FlushEffect(w, F, fl) EXCEPT !.ok = TRUE]

\* what simplefs_update_sb copies into the superblock buffer
UpdateSbFields(m) ==
    [m.dsb EXCEPT !.nr_free_blocks = m.sbi.nr_free_blocks,
                  !.nr_free_inodes = m.sbi.nr_free_inodes]

\* simplefs_update_sb: m.ok is "returned 0"
simplefs_update_sb(m, F, c) ==
    LET r == sb_bread(m, F, <<c, "sb_read">>)
    IN IF ~r.ok THEN r
       ELSE force_write_buffer(r, [r EXCEPT !.dsb = UpdateSbFields(r)], F,
                               SIMPLEFS_SUPERBLOCK_BLOCK,
                               <<c, "sb_write">>, <<c, "sb_flush">>)

(* --------------------------- allocation ------------------------------ *)
\* the loops of simplefs_alloc_inode_num and simplefs_alloc_block_num:
\* for (i = from; i < limit; i++) if (!test_bit_in_buffer(bitmap, i)) break;
\* the result is free_inode / free_block, -1 when the loop ends without a hit
\* a scan that takes the last clear index in the range instead of the first
ScanLast(bitmap, i, limit) ==
    IF \A j \in i .. (limit - 1) : j \in bitmap THEN -1
    ELSE CHOOSE j \in i .. (limit - 1) :
            j \notin bitmap /\ \A k \in (j + 1) .. (limit - 1) : k \in bitmap

\* the loop, closed: the first index from i on whose bit is clear, so that
\* a scan over the thousands of inodes of a real volume stays evaluable
ScanLoop(bitmap, i, limit) ==
    IF \A j \in i .. (limit - 1) : test_bit_in_buffer(bitmap, j) THEN -1
    ELSE CHOOSE j \in i .. (limit - 1) :
            /\ ~test_bit_in_buffer(bitmap, j)
            /\ \A k \in i .. (j - 1) : test_bit_in_buffer(bitmap, k)

\* where the inode scan starts: inode 0 is skipped
InodeScanStart == 1

ScanInode(m) == ScanLoop(m.ibm, InodeScanStart, m.sbi.nr_inodes)

\* a block scan that starts at block 0
ScanBlockFromZero(m) == ScanLoop(m.bbm, 0, m.sbi.nr_blocks)

ScanBlock(m) == ScanLoop(m.bbm, m.sbi.first_data_block, m.sbi.nr_blocks)

\* a rollback that restores the counter and leaves the bitmap alone
RollbackCounterOnly(m, F, c, free_inode) == [m EXCEPT !.sbi.nr_free_inodes = @ + 1]

\* the rollback of simplefs_alloc_inode_num after a failed superblock update
AllocInodeRollback(m, F, c, free_inode) ==
    LET r == sb_bread(m, F, <<c, "rb_read">>)
        w == IF r.ok
             THEN force_write_buffer(r, [r EXCEPT !.ibm = clear_bit_in_buffer(@, free_inode)],
                                     F, SIMPLEFS_INODE_BITMAP_BLOCK,
                                     <<c, "rb_write">>, <<c, "rb_flush">>)
             ELSE r
    IN [w EXCEPT !.sbi.nr_free_inodes = @ + 1]

\* an inode allocation that does not look at the free counter
AllocInodeUnchecked(m, F, c) ==
    LET free_inode == ScanInode(m)
    IN IF free_inode < 0 THEN [m EXCEPT !.ret = Err("ENOSPC")]
       ELSE [m EXCEPT !.ibm = set_bit_in_buffer(@, free_inode),
                      !.sbi.nr_free_inodes = @ - 1,
                      !.dsb.nr_free_inodes = m.sbi.nr_free_inodes - 1,
                      !.ret = Ok(free_inode)]

simplefs_alloc_inode_num(m, F, c) ==
    IF m.sbi.nr_free_inodes = 0 THEN [m EXCEPT !.ret = Err("ENOSPC")]
    ELSE
    LET r == sb_bread(m, F, <<c, "bm_read">>)
    IN IF ~r.ok THEN [r EXCEPT !.ret = Err("EIO")]
       ELSE
       LET free_inode == ScanInode(r)
       IN IF free_inode < 0
          THEN [sb_bread(r, F, <<c, "dbg_read">>) EXCEPT !.ret = Err("ENOSPC")]
          ELSE
          LET w == force_write_buffer(r, [r EXCEPT !.ibm = set_bit_in_buffer(@, free_inode)],
                                      F, SIMPLEFS_INODE_BITMAP_BLOCK,
                                      <<c, "bm_write">>, <<c, "bm_flush">>)
          IN IF ~w.ok THEN [w EXCEPT !.ret = Err("EIO")]
             ELSE
             LET u == simplefs_update_sb([w EXCEPT !.sbi.nr_free_inodes = @ - 1], F, c)
             IN IF ~u.ok
                THEN [AllocInodeRollback(u, F, c, free_inode) EXCEPT !.ret = Err("EIO")]
                ELSE [u EXCEPT !.ret = Ok(free_inode)]

\* the rollback of simplefs_alloc_block_num after a failed superblock update
AllocBlockRollback(m, F, c, free_block) ==
    LET r == sb_bread(m, F, <<c, "rb_read">>)
        w == IF r.ok
             THEN force_write_buffer(r, [r EXCEPT !.bbm = clear_bit_in_buffer(@, free_block)],
                                     F, SIMPLEFS_BLOCK_BITMAP_BLOCK,
                                     <<c, "rb_write">>, <<c, "rb_flush">>)
             ELSE r
    IN [w EXCEPT !.sbi.nr_free_blocks = @ + 1]

simplefs_alloc_block_num(m, F, c) ==
    IF m.sbi.nr_free_blocks = 0 THEN [m EXCEPT !.ret = Err("ENOSPC")]
    ELSE
    LET r == sb_bread(m, F, <<c, "bm_read">>)
    IN IF ~r.ok THEN [r EXCEPT !.ret = Err("EIO")]
       ELSE
       LET free_block == ScanBlock(r)
       IN IF free_block < 0 THEN [r EXCEPT !.ret = Err("ENOSPC")]
          ELSE
          LET w == force_write_buffer(r, [r EXCEPT !.bbm = set_bit_in_buffer(@, free_block)],
                                      F, SIMPLEFS_BLOCK_BITMAP_BLOCK,
                                      <<c, "bm_write">>, <<c, "bm_flush">>)
          IN IF ~w.ok THEN [w EXCEPT !.ret = Err("EIO")]
             ELSE
             LET u == simplefs_update_sb([w EXCEPT !.sbi.nr_free_blocks = @ - 1], F, c)
             IN IF ~u.ok
                THEN [AllocBlockRollback(u, F, c, free_block) EXCEPT !.ret = Err("EIO")]
                ELSE [u EXCEPT !.ret = Ok(free_block)]

\* an inode free that does nothing
FreeInodeForgets(m, F, c, ino) == [m EXCEPT !.ret = Void, !.note = "freed"]

\* simplefs_free_inode_num returns nothing; m.note is what it logged
simplefs_free_inode_num(m, F, c, ino) ==
    IF ino = 0 \/ ino >= m.sbi.nr_inodes
    THEN [m EXCEPT !.ret = Void, !.note = "invalid"]
    ELSE
    LET r == sb_bread(m, F, <<c, "bm_read">>)
    IN IF ~r.ok THEN [r EXCEPT !.ret = Void, !.note = "read failed"]
       ELSE IF ~test_bit_in_buffer(r.ibm, ino)
       THEN [r EXCEPT !.ret = Void, !.note = "already free"]
       ELSE
       LET w == force_write_buffer(r, [r EXCEPT !.ibm = clear_bit_in_buffer(@, ino)],
                                   F, SIMPLEFS_INODE_BITMAP_BLOCK,
                                   <<c, "bm_write">>, <<c, "bm_flush">>)
       IN IF ~w.ok THEN [w EXCEPT !.ret = Void, !.note = "write failed"]
          ELSE
          LET u == simplefs_update_sb([w EXCEPT !.sbi.nr_free_inodes = @ + 1], F, c)
          IN [u EXCEPT !.ret = Void, !.note = "freed"]

\* a block free that does not check the range of the block number
FreeBlockUnchecked(m, F, c, block) ==
    [m EXCEPT !.bbm = clear_bit_in_buffer(@, block),
              !.sbi.nr_free_blocks = @ + 1,
              !.dsb.nr_free_blocks = m.sbi.nr_free_blocks + 1,
              !.ret = Void, !.note = "freed"]

simplefs_free_block_num(m, F, c, block) ==
    IF block < m.sbi.first_data_block \/ block >= m.sbi.nr_blocks
    THEN [m EXCEPT !.ret = Void, !.note = "invalid"]
    ELSE
    LET r == sb_bread(m, F, <<c, "bm_read">>)
    IN IF ~r.ok THEN [r EXCEPT !.ret = Void, !.note = "read failed"]
       ELSE IF ~test_bit_in_buffer(r.bbm, block)
       THEN [r EXCEPT !.ret = Void, !.note = "already free"]
       ELSE
       LET w == force_write_buffer(r, [r EXCEPT !.bbm = clear_bit_in_buffer(@, block)],
                                   F, SIMPLEFS_BLOCK_BITMAP_BLOCK,
                                   <<c, "bm_write">>, <<c, "bm_flush">>)
       IN IF ~w.ok THEN [w EXCEPT !.ret = Void, !.note = "write failed"]
          ELSE
          LET u == simplefs_update_sb([w EXCEPT !.sbi.nr_free_blocks = @ + 1], F, c)
          IN [u EXCEPT !.ret = Void, !.note = "freed"]

(* ----------------------------- inodes -------------------------------- *)
S_ISDIR(i_mode) == i_mode.fmt = "S_IFDIR"

S_ISREG(i_mode) == i_mode.fmt = "S_IFREG"

inode_block(ino) == (ino \div SIMPLEFS_INODES_PER_BLOCK) + 1

inode_shift(ino) == ino % SIMPLEFS_INODES_PER_BLOCK

NoHandle ==
    [valid |-> FALSE, i_mode |-> [fmt |-> "0", perm |-> 0], i_uid |-> 0, i_gid |-> 0,
     i_size |-> 0, i_nlink |-> 0, ei_block |-> 0]

\* the first word of a raw inode: S_IFREG or S_IFDIR or'ed with the permissions
ModeWord(i_mode) ==
    (IF i_mode.fmt = "S_IFREG" THEN 32768 ELSE IF i_mode.fmt = "S_IFDIR" THEN 16384 ELSE 0)
        + i_mode.perm

\* what a raw inode written at inode_shift(ino) does to a data block: the
\* block no longer holds file bytes, and the record at shift 0 puts its
\* i_mode into the word that struct simplefs_dir_block reads as nr_files
RecordInDataBlock(dblock, ino, rec) ==
    [dblock EXCEPT !.text = "inode record",
                   !.nr_files = IF inode_shift(ino) = 0 THEN ModeWord(rec.i_mode) ELSE @]

\* the record at (inode_block(ino), inode_shift(ino)): itab holds the records
\* by inode number; a record written outside the inode table block is noted
\* in m.stray with the block it landed in, and changes that block when it is
\* a data block
PutInode(m, ino, rec) ==
    [m EXCEPT !.itab[ino] = rec,
              !.stray = IF inode_block(ino) = SIMPLEFS_INODE_TABLE_BLOCK
                        THEN @ ELSE @ \cup {inode_block(ino)},
              !.data = IF inode_block(ino) \in DOMAIN m.data
                       THEN [@ EXCEPT ![inode_block(ino)] = RecordInDataBlock(@, ino, rec)]
                       ELSE @]

\* a handle whose size is one block whatever the raw inode says
HandleSizeOfBlock(raw) ==
    [valid |-> TRUE, i_mode |-> raw.i_mode, i_uid |-> raw.i_uid, i_gid |-> raw.i_gid,
     i_size |-> SIMPLEFS_BLOCK_SIZE, i_nlink |-> raw.i_nlink, ei_block |-> raw.ei_block]

\* the handle simplefs_iget fills from a raw inode
HandleOf(raw) ==
    [valid |-> TRUE, i_mode |-> raw.i_mode, i_uid |-> raw.i_uid, i_gid |-> raw.i_gid,
     i_size |-> IF S_ISDIR(raw.i_mode) /\ raw.i_size = 0
                THEN SIMPLEFS_BLOCK_SIZE ELSE raw.i_size,
     i_nlink |-> raw.i_nlink, ei_block |-> raw.ei_block]

\* simplefs_iget: m.ok is "returned a handle", m.ret the error otherwise
simplefs_iget(m, F, ino) ==
    IF ino = 0 \/ ino >= SIMPLEFS_MAX_INODES THEN [m EXCEPT !.ok = FALSE, !.ret = Err("EINVAL")]
    ELSE IF m.icache[ino].valid THEN [m EXCEPT !.ok = TRUE]
    ELSE IF <<"ig", "mem">> \in F
    THEN [m EXCEPT !.trace = Append(@, <<"ig", "mem">>), !.failed = @ \cup {<<"ig", "mem">>},
                   !.ok = FALSE, !.ret = Err("ENOMEM")]
    ELSE
    LET a == [m EXCEPT !.trace = Append(@, <<"ig", "mem">>)]
    IN IF inode_block(ino) >= 4 THEN [a EXCEPT !.ok = FALSE, !.ret = Err("EIO")]
       ELSE
       LET b == sb_bread(a, F, <<"ig", "read">>)
           r == IF b.ok THEN GotBuffer(b, "ig_bh") ELSE b
           raw == r.itab[ino]
       IN IF ~r.ok THEN [r EXCEPT !.ret = Err("EIO")]
          ELSE IF ~S_ISDIR(raw.i_mode) /\ ~S_ISREG(raw.i_mode)
          THEN [brelse(r, "ig_bh") EXCEPT !.ok = FALSE, !.ret = Err("EINVAL")]
          ELSE IF raw.ei_block >= IgetBlockLimit
          THEN [brelse(r, "ig_bh") EXCEPT !.ok = FALSE, !.ret = Err("EINVAL")]
          ELSE [brelse(r, "ig_bh") EXCEPT !.ok = TRUE, !.icache[ino] = HandleOf(raw)]

(* ------------------------- lookup / readpage ------------------------- *)
\* f->filename[SIMPLEFS_FILENAME_LEN - 1] = 0: the stored name as strcmp reads it
Terminated(filename) ==
    IF Len(filename) < SIMPLEFS_FILENAME_LEN THEN filename
    ELSE SubSeq(filename, 1, SIMPLEFS_FILENAME_LEN - 1)

\* the entries the loop of simplefs_lookup compares equal to name
LookupHits(dblock, name) ==
    {i \in Slots : /\ i < dblock.nr_files
                   /\ dblock.files[i].inode # 0
                   /\ dblock.files[i].inode < SIMPLEFS_MAX_INODES
                   /\ Terminated(dblock.files[i].filename) = name}

\* f->filename[SIMPLEFS_FILENAME_LEN - 1] = 0 in the entries the loop of
\* simplefs_lookup visits, 0 .. upto: the store goes into the buffer of the
\* directory block, which every later sb_bread of the block returns
TerminateVisited(dblock, upto) ==
    [dblock EXCEPT !.files = [i \in Slots |->
        IF i <= upto /\ i < dblock.nr_files
        THEN [@[i] EXCEPT !.filename = Terminated(@)]
        ELSE @[i]]]

\* a lookup that reads the directory whatever the length of the name
LookupAnyLength(m, F, dir, name) ==
    [sb_bread(m, F, <<"lk", "par_read">>) EXCEPT !.ret = Ok(0)]

\* simplefs_lookup: m.ret is the error, or the inode number the dentry is
\* bound to, 0 for a negative dentry; a failing simplefs_iget gives 0 too
simplefs_lookup(m, F, dir, name) ==
    LET blk == m.icache[dir].ei_block
    IN IF blk = 0 \/ blk >= IgetBlockLimit THEN [m EXCEPT !.ret = Err("EIO")]
       ELSE IF Len(name) >= SIMPLEFS_FILENAME_LEN THEN [m EXCEPT !.ret = Err("ENAMETOOLONG")]
       ELSE
       LET r == sb_bread(m, F, <<"lk", "par_read">>)
           dblock == r.data[blk]
           hits == LookupHits(dblock, name)
           first == CHOOSE i \in hits : \A j \in hits : i <= j
           t == [r EXCEPT !.data[blk] =
                    TerminateVisited(dblock, IF hits = {} THEN dblock.nr_files ELSE first)]
           g == simplefs_iget(t, F, dblock.files[first].inode)
       IN IF ~r.ok THEN [r EXCEPT !.ret = Err("EIO")]
          ELSE IF dblock.nr_files > SIMPLEFS_MAX_SUBFILES THEN [r EXCEPT !.ret = Err("EIO")]
          ELSE IF hits = {} THEN [t EXCEPT !.ret = Ok(0)]
          ELSE IF ~g.ok THEN [g EXCEPT !.ret = Ok(0)]
          ELSE [g EXCEPT !.ret = Ok(dblock.files[first].inode)]

ZeroPage == [text |-> "zero", len |-> 0]

\* simplefs_readpage of page 0 of the file behind handle ino: the bytes
\* copied from the data block and how many, the rest of the page zero
simplefs_readpage(m, F, ino) ==
    LET h == m.icache[ino]
        r == sb_bread(m, F, <<"rp", "dat_read">>)
    IN IF h.i_size = 0 \/ h.ei_block = 0 THEN ZeroPage
       ELSE IF h.ei_block < 4 \/ h.ei_block >= IgetBlockLimit THEN ZeroPage
       ELSE IF ~r.ok THEN ZeroPage
       ELSE [text |-> r.data[h.ei_block].text,
             len |-> IF h.i_size < SIMPLEFS_BLOCK_SIZE THEN h.i_size ELSE SIMPLEFS_BLOCK_SIZE]

(* ------------------------------- mount ------------------------------- *)
\* sb->s_fs_info before simplefs_fill_super has set it
NoSbInfo ==
    [magic |-> "0", nr_blocks |-> 0, nr_inodes |-> 0, nr_free_blocks |-> 0,
     nr_free_inodes |-> 0, inode_bitmap_block |-> 0, block_bitmap_block |-> 0,
     first_data_block |-> 0]

\* a step of simplefs_fill_super that can fail: lbl joins the trace
FillSuperStep(m, F, lbl) ==
    [m EXCEPT !.trace = Append(@, lbl),
              !.failed = IF lbl \in F THEN @ \cup {lbl} ELSE @,
              !.ok = lbl \notin F]

\* a mount that copies the superblock and loads the root without looking
FillSuperUnchecked(m, F) ==
    LET g == simplefs_iget([m EXCEPT !.sbi = m.dsb], F, RootIno)
    IN IF ~g.ok THEN [m EXCEPT !.ret = g.ret] ELSE [g EXCEPT !.ret = Ok(0)]

\* simplefs_fill_super: on every error path the in-memory superblock info
\* is freed again and no root handle is left.  The superblock buffer is
\* released once the fields are copied; the error paths from there on end
\* at the label release, which releases it again
simplefs_fill_super(m, F) ==
    LET b == sb_bread(m, F, <<"fs", "sb_read">>)
        r == IF b.ok THEN GotBuffer(b, "fs_bh") ELSE b
        a == FillSuperStep(r, F, <<"fs", "mem">>)
        c == brelse([a EXCEPT !.sbi = a.dsb], "fs_bh")
        g == simplefs_iget(c, F, RootIno)
        d == FillSuperStep(g, F, <<"fs", "root_mem">>)
        Fail(x, e) ==
            [brelse(x, "fs_bh") EXCEPT !.sbi = NoSbInfo, !.icache = m.icache, !.ok = FALSE,
                                         !.ret = e]
    IN IF ~r.ok THEN [r EXCEPT !.sbi = NoSbInfo, !.icache = m.icache, !.ret = Err("EIO")]
       ELSE IF r.dsb.magic # SIMPLEFS_MAGIC THEN Fail(r, Err("EINVAL"))
       ELSE IF ~a.ok THEN Fail(a, Err("ENOMEM"))
       ELSE IF c.sbi.nr_blocks = 0 \/ c.sbi.nr_inodes = 0 THEN Fail(c, Err("EINVAL"))
       ELSE IF c.sbi.first_data_block >= c.sbi.nr_blocks THEN Fail(c, Err("EINVAL"))
       ELSE IF \/ c.sbi.inode_bitmap_block >= c.sbi.nr_blocks
               \/ c.sbi.block_bitmap_block >= c.sbi.nr_blocks
       THEN Fail(c, Err("EINVAL"))
       ELSE IF ~g.ok THEN Fail(g, g.ret)
       ELSE IF ~d.ok THEN Fail(d, Err("ENOMEM"))
       ELSE [d EXCEPT !.ret = Ok(0)]

(* -------------------------- sync / statfs ---------------------------- *)
\* a sync that copies the free-block counter only
SyncBlocksOnly(m) == [m.dsb EXCEPT !.nr_free_blocks = m.sbi.nr_free_blocks]

\* what simplefs_sync_sb copies into the superblock buffer
SyncSbFields(m) ==
    [m.dsb EXCEPT !.nr_free_blocks = m.sbi.nr_free_blocks,
                  !.nr_free_inodes = m.sbi.nr_free_inodes]

\* simplefs_sync_sb: m.ret is what it returns
simplefs_sync_sb(m, F) ==
    LET r == sb_bread(m, F, <<"sy", "sb_read">>)
        w == force_write_buffer(r, [r EXCEPT !.dsb = SyncSbFields(r)], F,
                                SIMPLEFS_SUPERBLOCK_BLOCK,
                                <<"sy", "sb_write">>, <<"sy", "sb_flush">>)
    IN IF ~r.ok THEN [r EXCEPT !.ret = Err("EIO")]
       ELSE IF ~w.ok THEN [w EXCEPT !.ret = Err("EIO")]
       ELSE [w EXCEPT !.ret = Ok(0)]

\* the struct kstatfs simplefs_statfs fills from the in-memory superblock
StatOf(info) ==
    [f_type |-> SIMPLEFS_MAGIC, f_bsize |-> SIMPLEFS_BLOCK_SIZE,
     f_blocks |-> info.nr_blocks, f_bfree |-> info.nr_free_blocks,
     f_bavail |-> info.nr_free_blocks, f_files |-> info.nr_inodes,
     f_ffree |-> info.nr_free_inodes, f_namelen |-> SIMPLEFS_FILENAME_LEN]

\* a query that reports the in-memory counters without reading the device
StatfsFromMemory(m, F) == [m EXCEPT !.ret = Ok(StatOf(m.sbi))]

\* simplefs_statfs: when the superblock can be read the in-memory counters
\* are replaced by the ones on the device; it returns 0 either way, and
\* m.ret.val is the struct kstatfs it filled
simplefs_statfs(m, F) ==
    LET r == sb_bread(m, F, <<"st", "sb_read">>)
        u == IF r.ok THEN [r EXCEPT !.sbi.nr_free_blocks = r.dsb.nr_free_blocks,
                                    !.sbi.nr_free_inodes = r.dsb.nr_free_inodes]
             ELSE r
    IN [u EXCEPT !.ret = Ok(StatOf(u.sbi))]

(* --------------------------- create / mkdir -------------------------- *)
\* an entry written over slot 0
AppendAtZero(dblock, name, new_ino) ==
    [dblock EXCEPT !.files[0] = [inode |-> new_ino, filename |-> name],
                   !.nr_files = @ + 1]

\* the directory entry create and mkdir append at index nr_files
AppendEntry(dblock, name, new_ino) ==
    [dblock EXCEPT !.files[dblock.nr_files] = [inode |-> new_ino, filename |-> name],
                   !.nr_files = @ + 1]

\* a collision scan that finds nothing
NeverCollides(dblock, name) == FALSE

\* the collision scan of simplefs_create: every entry below nr_files
CreateCollides(dblock, name) ==
    \E i \in Slots : i < dblock.nr_files /\ dblock.files[i].filename = name

\* the collision scan of simplefs_mkdir: entries with a nonzero inode number
MkdirCollides(dblock, name) ==
    \E i \in Slots : /\ i < dblock.nr_files
                     /\ dblock.files[i].inode # 0
                     /\ dblock.files[i].filename = name

FileInode(mode, new_block) ==
    [i_mode |-> [fmt |-> "S_IFREG", perm |-> mode], i_uid |-> 0, i_gid |-> 0,
     i_size |-> 0, i_nlink |-> 1, ei_block |-> new_block]

\* a directory record filled as a file record is
DirInodeAsFile(new_block) == FileInode(ModeDir, new_block)

DirInode(new_block) ==
    [i_mode |-> [fmt |-> "S_IFDIR", perm |-> ModeDir], i_uid |-> 0, i_gid |-> 0,
     i_size |-> SIMPLEFS_BLOCK_SIZE, i_nlink |-> 2, ei_block |-> new_block]

\* a cleanup that frees the inode number and forgets the block
CleanupInodeOnly(m, F, e) ==
    [simplefs_free_inode_num(m, F, "fi", m.new_ino) EXCEPT !.ret = e, !.note = "cleanup"]

\* the cleanup label of simplefs_create: both numbers are freed
CreateCleanup(m, F, e) ==
    LET b == simplefs_free_block_num(m, F, "fb", m.new_block)
        i == simplefs_free_inode_num(b, F, "fi", m.new_ino)
    IN [i EXCEPT !.ret = e, !.note = "cleanup"]

\* a tail that zeroes the data block before it writes the inode record
CreateTailDataFirst(m, F, mode) ==
    LET dr == sb_bread(m, F, <<"cr", "dat_read">>)
        dw == force_write_buffer(dr, [dr EXCEPT !.data[m.new_block] = ZeroBlock],
                                 F, m.new_block, <<"cr", "dat_write">>, <<"cr", "dat_flush">>)
        ir == sb_bread(dw, F, <<"cr", "ino_read">>)
        iw == force_write_buffer(ir, PutInode(ir, m.new_ino, FileInode(mode, m.new_block)),
                                 F, inode_block(m.new_ino),
                                 <<"cr", "ino_write">>, <<"cr", "ino_flush">>)
        g == simplefs_iget(iw, F, m.new_ino)
    IN IF ~dr.ok THEN CreateCleanup(dr, F, Err("EIO"))
       ELSE IF ~dw.ok THEN CreateCleanup(dw, F, Err("EIO"))
       ELSE IF ~ir.ok THEN CreateCleanup(ir, F, Err("EIO"))
       ELSE IF ~iw.ok THEN CreateCleanup(iw, F, Err("EIO"))
       ELSE IF ~g.ok THEN CreateCleanup(g, F, g.ret)
       ELSE [g EXCEPT !.ret = Ok(0), !.note = "created"]

\* simplefs_create from the write of the inode record on
CreateTail(m, F, mode) ==
    LET ir == sb_bread(m, F, <<"cr", "ino_read">>)
    IN IF ~ir.ok THEN CreateCleanup(ir, F, Err("EIO"))
       ELSE
       LET iw == force_write_buffer(ir, PutInode(ir, m.new_ino, FileInode(mode, m.new_block)),
                                    F, inode_block(m.new_ino),
                                    <<"cr", "ino_write">>, <<"cr", "ino_flush">>)
       IN IF ~iw.ok THEN CreateCleanup(iw, F, Err("EIO"))
          ELSE
          LET dr == sb_bread(iw, F, <<"cr", "dat_read">>)
          IN IF ~dr.ok THEN CreateCleanup(dr, F, Err("EIO"))
             ELSE
             LET dw == force_write_buffer(dr, [dr EXCEPT !.data[m.new_block] = ZeroBlock],
                                          F, m.new_block,
                                          <<"cr", "dat_write">>, <<"cr", "dat_flush">>)
             IN IF ~dw.ok THEN CreateCleanup(dw, F, Err("EIO"))
                ELSE
                LET g == simplefs_iget(dw, F, m.new_ino)
                IN IF ~g.ok THEN CreateCleanup(g, F, g.ret)
                   ELSE [g EXCEPT !.ret = Ok(0), !.note = "created"]

\* simplefs_create from the read of the parent directory on
CreateBody(m, F, dir, name, mode) ==
    LET pblock == m.icache[dir].ei_block
        pr == sb_bread(m, F, <<"cr", "par_read">>)
        dblock == pr.data[pblock]
    IN IF ~pr.ok THEN CreateCleanup(pr, F, Err("EIO"))
       ELSE IF dblock.nr_files >= SIMPLEFS_MAX_SUBFILES THEN CreateCleanup(pr, F, Err("ENOSPC"))
       ELSE IF CreateCollides(dblock, name) THEN CreateCleanup(pr, F, Err("EEXIST"))
       ELSE
       LET pw == force_write_buffer(pr, [pr EXCEPT !.data[pblock] =
                                                      AppendEntry(dblock, name, m.new_ino)],
                                    F, pblock, <<"cr", "par_write">>, <<"cr", "par_flush">>)
       IN IF ~pw.ok THEN CreateCleanup(pw, F, Err("EIO"))
          ELSE CreateTail(pw, F, mode)

simplefs_create(m, F, dir, name, mode) ==
    IF Len(name) >= SIMPLEFS_FILENAME_LEN THEN [m EXCEPT !.ret = Err("ENAMETOOLONG")]
    ELSE IF m.sbi.nr_free_inodes = 0 THEN [m EXCEPT !.ret = Err("ENOSPC")]
    ELSE IF m.sbi.nr_free_blocks = 0 THEN [m EXCEPT !.ret = Err("ENOSPC")]
    ELSE
    LET ai == simplefs_alloc_inode_num(m, F, "ai")
    IN IF ai.ret.err # "OK" THEN ai
       ELSE
       LET ab == simplefs_alloc_block_num([ai EXCEPT !.new_ino = ai.ret.val], F, "ab")
       IN IF ab.ret.err # "OK"
          THEN [simplefs_free_inode_num(ab, F, "fi", ab.new_ino)
                   EXCEPT !.ret = ab.ret, !.note = "cleanup"]
          ELSE CreateBody([ab EXCEPT !.new_block = ab.ret.val], F, dir, name, mode)

\* a cleanup that frees the block and forgets the inode number
CleanupBlockOnly(m, F, e) ==
    [simplefs_free_block_num(m, F, "fb", m.new_block) EXCEPT !.ret = e, !.note = "cleanup"]

\* the labels cleanup_block and cleanup_inode of simplefs_mkdir
MkdirCleanupBlock(m, F, e) ==
    LET b == simplefs_free_block_num(m, F, "fb", m.new_block)
        i == simplefs_free_inode_num(b, F, "fi", m.new_ino)
    IN [i EXCEPT !.ret = e, !.note = "cleanup"]

\* simplefs_mkdir from the second read of the parent directory on
MkdirTail(m, F, dir, name) ==
    LET pblock == m.icache[dir].ei_block
        pr == sb_bread(m, F, <<"mk", "par_read">>)
        dblock == pr.data[pblock]
    IN IF ~pr.ok THEN MkdirCleanupBlock(pr, F, Err("EIO"))
       ELSE IF dblock.nr_files >= SIMPLEFS_MAX_SUBFILES
       THEN MkdirCleanupBlock(pr, F, Err("ENOSPC"))
       ELSE
       LET pw == force_write_buffer(pr, [pr EXCEPT !.data[pblock] =
                                                      AppendEntry(dblock, name, m.new_ino)],
                                    F, pblock, <<"mk", "par_write">>, <<"mk", "par_flush">>)
       IN IF ~pw.ok THEN MkdirCleanupBlock(pw, F, Err("EIO"))
          ELSE
          LET g == simplefs_iget(pw, F, m.new_ino)
          IN IF ~g.ok THEN MkdirCleanupBlock(g, F, g.ret)
             ELSE [g EXCEPT !.ret = Ok(0), !.note = "created"]

\* simplefs_mkdir from the write of the inode record on
MkdirBody(m, F, dir, name) ==
    LET ir == sb_bread(m, F, <<"mk", "ino_read">>)
    IN IF ~ir.ok THEN MkdirCleanupBlock(ir, F, Err("EIO"))
       ELSE
       LET iw == force_write_buffer(ir, PutInode(ir, m.new_ino, DirInode(m.new_block)),
                                    F, inode_block(m.new_ino),
                                    <<"mk", "ino_write">>, <<"mk", "ino_flush">>)
       IN IF ~iw.ok THEN MkdirCleanupBlock(iw, F, Err("EIO"))
          ELSE
          LET dr == sb_bread(iw, F, <<"mk", "dat_read">>)
          IN IF ~dr.ok THEN MkdirCleanupBlock(dr, F, Err("EIO"))
             ELSE
             LET dw == force_write_buffer(dr, [dr EXCEPT !.data[m.new_block] = ZeroBlock],
                                          F, m.new_block,
                                          <<"mk", "dat_write">>, <<"mk", "dat_flush">>)
             IN IF ~dw.ok THEN MkdirCleanupBlock(dw, F, Err("EIO"))
                ELSE MkdirTail(dw, F, dir, name)

\* a mkdir that follows simplefs_create, free-space checks included
MkdirAsCreate(m, F, dir, name) == simplefs_create(m, F, dir, name, ModeDir)

simplefs_mkdir(m, F, dir, name) ==
    LET pblock == m.icache[dir].ei_block
    IN
    IF Len(name) >= SIMPLEFS_FILENAME_LEN THEN [m EXCEPT !.ret = Err("ENAMETOOLONG")]
    ELSE IF pblock = 0 \/ pblock >= m.sbi.nr_blocks THEN [m EXCEPT !.ret = Err("EIO")]
    ELSE IF m.sbi.nr_free_inodes <= 1 THEN [m EXCEPT !.ret = Err("ENOSPC")]
    ELSE IF m.sbi.nr_free_blocks <= 1 THEN [m EXCEPT !.ret = Err("ENOSPC")]
    ELSE
    LET cr == sb_bread(m, F, <<"mk", "chk_read">>)
        dblock == cr.data[pblock]
    IN IF ~cr.ok THEN [cr EXCEPT !.ret = Err("EIO")]
       ELSE IF dblock.nr_files > SIMPLEFS_MAX_SUBFILES THEN [cr EXCEPT !.ret = Err("EIO")]
       ELSE IF dblock.nr_files >= SIMPLEFS_MAX_SUBFILES THEN [cr EXCEPT !.ret = Err("ENOSPC")]
       ELSE IF MkdirCollides(dblock, name) THEN [cr EXCEPT !.ret = Err("EEXIST")]
       ELSE
       LET ai == simplefs_alloc_inode_num(cr, F, "ai")
       IN IF ai.ret.err # "OK" THEN ai
          ELSE
          LET ab == simplefs_alloc_block_num([ai EXCEPT !.new_ino = ai.ret.val], F, "ab")
          IN IF ab.ret.err # "OK"
             THEN [simplefs_free_inode_num(ab, F, "fi", ab.new_ino)
                      EXCEPT !.ret = ab.ret, !.note = "cleanup"]
             ELSE MkdirBody([ab EXCEPT !.new_block = ab.ret.val], F, dir, name)

(* ------------------------- the formatted image ----------------------- *)
\* the superblock mkfs.simplefs writes
MkfsSuperblock ==
    [magic |-> SIMPLEFS_MAGIC, nr_blocks |-> NrBlocks, nr_inodes |-> NrInodes,
     nr_free_blocks |-> NrBlocks - 6, nr_free_inodes |-> NrInodes - 2,
     inode_bitmap_block |-> SIMPLEFS_INODE_BITMAP_BLOCK,
     block_bitmap_block |-> SIMPLEFS_BLOCK_BITMAP_BLOCK,
     first_data_block |-> SIMPLEFS_FIRST_DATA_BLOCK]

MkfsInodeBitmap == {RootIno, HelloIno}

MkfsBlockBitmap == 0 .. HelloBlock

MkfsRootInode ==
    [i_mode |-> [fmt |-> "S_IFDIR", perm |-> ModeDir], i_uid |-> 0, i_gid |-> 0,
     i_size |-> SIMPLEFS_BLOCK_SIZE, i_nlink |-> 2, ei_block |-> RootBlock]

MkfsHelloInode ==
    [i_mode |-> [fmt |-> "S_IFREG", perm |-> ModeHello], i_uid |-> 0, i_gid |-> 0,
     i_size |-> HelloSize, i_nlink |-> 1, ei_block |-> HelloBlock]

MkfsInodeTable ==
    [i \in 0 .. (NrInodes - 1) |->
        IF i = RootIno THEN MkfsRootInode
        ELSE IF i = HelloIno THEN MkfsHelloInode ELSE ZeroInode]

MkfsRootDir ==
    [ZeroBlock EXCEPT !.nr_files = 1,
                      !.files[0] = [inode |-> HelloIno, filename |-> NameHello]]

MkfsData ==
    [b \in DataBlocks |->
        IF b = RootBlock THEN MkfsRootDir
        ELSE IF b = HelloBlock THEN [ZeroBlock EXCEPT !.text = "hello"] ELSE ZeroBlock]

(* ---------------------------- directories ---------------------------- *)
NameDot == <<".">>
NameDotDot == <<".", ".">>

\* strnlen(f->filename, SIMPLEFS_FILENAME_LEN): the name dir_emit is handed
EmittedName(filename) ==
    IF Len(filename) <= SIMPLEFS_FILENAME_LEN THEN filename
    ELSE SubSeq(filename, 1, SIMPLEFS_FILENAME_LEN)

\* the directory holding the entry of dir; the root is its own parent
parent_ino(m, dir) ==
    IF \E p \in DOMAIN m.icache : /\ m.icache[p].valid
                                  /\ S_ISDIR(m.icache[p].i_mode)
                                  /\ \E i \in Slots : m.data[m.icache[p].ei_block].files[i].inode = dir
    THEN CHOOSE p \in DOMAIN m.icache :
             /\ m.icache[p].valid
             /\ S_ISDIR(m.icache[p].i_mode)
             /\ \E i \in Slots : m.data[m.icache[p].ei_block].files[i].inode = dir
    ELSE dir

\* dir_emit_dots: "." at position 0 and ".." at position 1, each only if the
\* consumer has room; ok is "both are behind the cursor"
dir_emit_dots(m, dir, pos, room) ==
    LET a == IF pos # 0 THEN [ok |-> TRUE, pos |-> pos, room |-> room, out |-> <<>>]
             ELSE IF room = 0 THEN [ok |-> FALSE, pos |-> 0, room |-> 0, out |-> <<>>]
             ELSE [ok |-> TRUE, pos |-> 1, room |-> room - 1,
                   out |-> <<[name |-> NameDot, ino |-> dir]>>]
    IN IF ~a.ok \/ a.pos # 1 THEN a
       ELSE IF a.room = 0 THEN [a EXCEPT !.ok = FALSE]
       ELSE [a EXCEPT !.pos = 2, !.room = @ - 1,
                      !.out = Append(@, [name |-> NameDotDot, ino |-> parent_ino(m, dir)])]

\* a loop that hands over one entry and leaves the cursor where it was
EmitStuck(dblock, i, room, out) ==
    [pos |-> i + 2,
     out |-> IF i >= SIMPLEFS_MAX_SUBFILES \/ dblock.files[i].inode = 0 \/ room = 0 THEN out
             ELSE Append(out, [name |-> EmittedName(dblock.files[i].filename),
                               ino |-> dblock.files[i].inode])]

\* the loop of simplefs_iterate from index i: it ends at the last slot, at
\* the first entry whose inode number is 0, or when dir_emit refuses
RECURSIVE EmitLoop(_, _, _, _)
EmitLoop(dblock, i, room, out) ==
    IF i >= SIMPLEFS_MAX_SUBFILES \/ dblock.files[i].inode = 0 \/ room = 0
    THEN [pos |-> i + 2, out |-> out]
    ELSE EmitLoop(dblock, i + 1, room - 1,
                  Append(out, [name |-> EmittedName(dblock.files[i].filename),
                               ino |-> dblock.files[i].inode]))

\* simplefs_iterate on the directory handle dir with ctx->pos = pos and a
\* consumer that takes room entries: the result, the cursor it leaves and
\* the entries it handed over
simplefs_iterate(m, F, dir, pos, room) ==
    IF ~S_ISDIR(m.icache[dir].i_mode)
    THEN [ret |-> Err("ENOTDIR"), pos |-> pos, out |-> <<>>, failed |-> {}]
    ELSE IF pos > SIMPLEFS_MAX_SUBFILES + 2
    THEN [ret |-> Ok(0), pos |-> pos, out |-> <<>>, failed |-> {}]
    ELSE
    LET d == dir_emit_dots(m, dir, pos, room)
    IN IF ~d.ok THEN [ret |-> Ok(0), pos |-> d.pos, out |-> d.out, failed |-> {}]
       ELSE
       LET r == sb_bread(m, F, <<"it", "read">>)
           e == EmitLoop(r.data[r.icache[dir].ei_block], d.pos - 2, d.room, d.out)
       IN IF ~r.ok THEN [ret |-> Err("EIO"), pos |-> d.pos, out |-> d.out, failed |-> r.failed]
          ELSE [ret |-> Ok(0), pos |-> e.pos, out |-> e.out, failed |-> {}]

\* the callers
Procs == {1, 2}

\* a caller before its call: the call it makes, where it is in it, the name
\* it creates, and its locals new_ino / free_inode, new_block / free_block,
\* the counter it loaded, nr_files, and what it returned
IdleProc ==
    [op |-> "none", pc |-> "idle", name |-> NoName, ino |-> -1, blk |-> -1, cnt |-> 0,
     nr |-> 0, ret |-> Void]

NoProcs == [serial |-> TRUE, p |-> [i \in Procs |-> IdleProc]]

\* an open directory: the consumer's room per call, ctx->pos, what the
\* consumer got so far, and of the last call the cursor it started from
\* (-1 before any call), its result and the entries it handed over
NoDirFile ==
    [open |-> FALSE, ino |-> 0, room |-> 0, pos |-> 0, listed |-> <<>>, done |-> FALSE,
     from |-> -1, ret |-> Void, out |-> <<>>]

(* ------------------------------ calls -------------------------------- *)
Call(op, n, dir, name, mode) == [op |-> op, n |-> n, dir |-> dir, name |-> name, mode |-> mode]

NoCall == Call("none", 0, 0, NoName, 0)

\* the machine record a call starts from
M ==
    [sbi |-> sbi, dsb |-> dsb, ibm |-> ibm, bbm |-> bbm, itab |-> itab, data |-> data,
     vol |-> vol, icache |-> icache, stray |-> stray,
     trace |-> <<>>, failed |-> {}, ok |-> TRUE, ret |-> Void, note |-> "",
     new_ino |-> -1, new_block |-> -1, bufs |-> <<>>]

Run(call, m, F) ==
    CASE call.op = "alloc_inode" -> simplefs_alloc_inode_num(m, F, "ai")
      [] call.op = "alloc_block" -> simplefs_alloc_block_num(m, F, "ab")
      [] call.op = "free_inode" -> simplefs_free_inode_num(m, F, "fi", call.n)
      [] call.op = "free_block" -> simplefs_free_block_num(m, F, "fb", call.n)
      [] call.op = "create" -> simplefs_create(m, F, call.dir, call.name, call.mode)
      [] call.op = "mkdir" -> simplefs_mkdir(m, F, call.dir, call.name)
      [] call.op = "lookup" -> simplefs_lookup(m, F, call.dir, call.name)
      [] call.op = "mount" -> simplefs_fill_super(m, F)
      [] call.op = "sync" -> simplefs_sync_sb(m, F)
      [] call.op = "statfs" -> simplefs_statfs(m, F)
      [] call.op = "iget" -> LET r == simplefs_iget(m, F, call.n)
                             IN IF r.ok THEN [r EXCEPT !.ret = Ok(call.n)] ELSE r

Range(s) == {s[i] : i \in DOMAIN s}

\* what a call can leave behind with at most k further storage steps
\* failing: each failing step is one the call reaches given the failures
\* chosen before it
RECURSIVE Outcomes(_, _, _, _)
Outcomes(call, m, F, k) ==
    LET r == Run(call, m, F)
    IN {r} \cup (IF k = 0 THEN {}
                 ELSE UNION {Outcomes(call, m, F \cup {l}, k - 1) : l \in Range(r.trace) \ F})

Snapshot ==
    [sbi |-> sbi, dsb |-> dsb, ibm |-> ibm, bbm |-> bbm, itab |-> itab, data |-> data,
     vol |-> vol, icache |-> icache]

NoPrev == [op |-> "none", val |-> 0, clean |-> FALSE,
           sbi |-> sbi, dsb |-> dsb, ibm |-> ibm, bbm |-> bbm]

\* the call before this one, kept when this call frees the number it returned
PrevOf(call) ==
    IF /\ last.ret.err = "OK"
       /\ \/ call.op = "free_inode" /\ last.call.op = "alloc_inode"
          \/ call.op = "free_block" /\ last.call.op = "alloc_block"
       /\ call.n = last.ret.val
    THEN [op |-> last.call.op, val |-> last.ret.val, clean |-> last.failed = {},
          sbi |-> last.pre.sbi, dsb |-> last.pre.dsb,
          ibm |-> last.pre.ibm, bbm |-> last.pre.bbm]
    ELSE NoPrev

\* a volume mounted from an image whose superblock is sb and whose
\* bitmaps are ib and bb: simplefs_fill_super copies the superblock
InitImage(sb, ib, bb) ==
    /\ dsb = sb
    /\ sbi = sb
    /\ ibm = ib
    /\ bbm = bb
    /\ itab = MkfsInodeTable
    /\ data = MkfsData
    /\ vol = {}
    /\ icache = [i \in 0 .. (NrInodes - 1) |->
                    IF i = RootIno THEN HandleOf(MkfsRootInode) ELSE NoHandle]
    /\ stray = {}
    /\ nfaults = 0
    /\ ncalls = 0
    /\ dirfile = NoDirFile
    /\ procs = NoProcs
    /\ last = [call |-> NoCall, ret |-> Void, note |-> "", trace |-> <<>>, failed |-> {},
               new_ino |-> -1, new_block |-> -1, bufs |-> <<>>,
               pre |-> [sbi |-> sb, dsb |-> sb,
                        ibm |-> ib, bbm |-> bb,
                        itab |-> MkfsInodeTable, data |-> MkfsData, vol |-> {},
                        icache |-> [i \in 0 .. (NrInodes - 1) |->
                                      IF i = RootIno THEN HandleOf(MkfsRootInode)
                                      ELSE NoHandle]],
               prev |-> [op |-> "none", val |-> 0, clean |-> FALSE,
                         sbi |-> sb, dsb |-> sb,
                         ibm |-> ib, bbm |-> bb]]

\* a volume mounted from an image whose bitmaps are ib and bb
InitWith(ib, bb) == InitImage(MkfsSuperblock, ib, bb)

\* the volume mkfs.simplefs formats, mounted
Init == InitWith(MkfsInodeBitmap, MkfsBlockBitmap)

\* a mounted volume whose inode bitmap or block bitmap holds any content:
\* simplefs_fill_super reads neither bitmap
InitAnyBitmap ==
    \/ \E ib \in SUBSET (0 .. (NrInodes - 1)) : InitWith(ib, MkfsBlockBitmap)
    \/ \E bb \in SUBSET (0 .. (NrBlocks - 1)) : InitWith(MkfsInodeBitmap, bb)

\* a mounted volume whose superblock holds any free counters:
\* simplefs_fill_super checks neither counter
InitAnyCounters ==
    \E fi \in 0 .. NrInodes : \E fb \in 0 .. NrBlocks :
        InitImage([MkfsSuperblock EXCEPT !.nr_free_inodes = fi, !.nr_free_blocks = fb],
                  MkfsInodeBitmap, MkfsBlockBitmap)

\* the superblocks a device can hold: each field checked by
\* simplefs_fill_super takes a value that passes and one that does not
WrongMagic == "0xDEADBEEE"

SuperblockImages ==
    {[MkfsSuperblock EXCEPT !.magic = mg, !.nr_blocks = nb, !.nr_inodes = ni,
                            !.inode_bitmap_block = ib, !.block_bitmap_block = bb,
                            !.first_data_block = fd] :
        mg \in {SIMPLEFS_MAGIC, WrongMagic}, nb \in {0, NrBlocks}, ni \in {0, NrInodes},
        ib \in {SIMPLEFS_INODE_BITMAP_BLOCK, NrBlocks},
        bb \in {SIMPLEFS_BLOCK_BITMAP_BLOCK, NrBlocks},
        fd \in {SIMPLEFS_FIRST_DATA_BLOCK, NrBlocks - 1, NrBlocks}}

\* the state before any call: the superblock on the device and its
\* in-memory copy, the bitmaps, the inode table, the inode cache, the
\* data blocks and the callers
InitProcs(disk_sb, mem_sb, ib, bb, tab, cache, blocks, callers) ==
    /\ dsb = disk_sb
    /\ sbi = mem_sb
    /\ ibm = ib
    /\ bbm = bb
    /\ itab = tab
    /\ data = blocks
    /\ vol = {}
    /\ icache = cache
    /\ stray = {}
    /\ nfaults = 0
    /\ ncalls = 0
    /\ dirfile = NoDirFile
    /\ procs = callers
    /\ last = [call |-> NoCall, ret |-> Void, note |-> "", trace |-> <<>>, failed |-> {},
               new_ino |-> -1, new_block |-> -1, bufs |-> <<>>,
               pre |-> [sbi |-> mem_sb, dsb |-> disk_sb, ibm |-> ib, bbm |-> bb,
                        itab |-> tab, data |-> blocks, vol |-> {}, icache |-> cache],
               prev |-> [op |-> "none", val |-> 0, clean |-> FALSE,
                         sbi |-> mem_sb, dsb |-> disk_sb, ibm |-> ib, bbm |-> bb]]

InitBlocks(disk_sb, mem_sb, ib, bb, tab, cache, blocks) ==
    InitProcs(disk_sb, mem_sb, ib, bb, tab, cache, blocks, NoProcs)

InitState(disk_sb, mem_sb, ib, bb, tab, cache) ==
    InitBlocks(disk_sb, mem_sb, ib, bb, tab, cache, MkfsData)

\* a device not yet mounted: any of these superblocks, the rest as mkfs
\* writes it, the root inode record either intact or zeroed
InitUnmounted ==
    \E sb \in SuperblockImages : \E root \in {MkfsRootInode, ZeroInode} :
        InitState(sb, NoSbInfo, MkfsInodeBitmap, MkfsBlockBitmap,
                  [MkfsInodeTable EXCEPT ![RootIno] = root],
                  [i \in 0 .. (NrInodes - 1) |-> NoHandle])

\* values of a stored data-block pointer: none, the metadata blocks, the
\* data blocks of the volume, and the blocks past its end on either side of
\* the limit simplefs_iget tests
PointerValues ==
    {0, 1, SIMPLEFS_FIRST_DATA_BLOCK - 1, SIMPLEFS_FIRST_DATA_BLOCK, NrBlocks - 1, NrBlocks,
     IgetBlockLimit - 1, IgetBlockLimit}

\* values of the file type in a stored i_mode
ModeFormats == {"0", "S_IFREG", "S_IFDIR", "S_IFLNK"}

\* a mounted volume on which the record of one inode other than the root
\* holds any file type and any data-block pointer
InitAnyInode ==
    \E n \in (RootIno + 1) .. (NrInodes - 1) : \E fmt \in ModeFormats : \E blk \in PointerValues :
        InitState(MkfsSuperblock, MkfsSuperblock, MkfsInodeBitmap \cup {n}, MkfsBlockBitmap,
                  [MkfsInodeTable EXCEPT ![n] = [i_mode |-> [fmt |-> fmt, perm |-> ModeHello],
                                                 i_uid |-> 0, i_gid |-> 0, i_size |-> 0,
                                                 i_nlink |-> 1, ei_block |-> blk]],
                  [i \in 0 .. (NrInodes - 1) |->
                      IF i = RootIno THEN HandleOf(MkfsRootInode) ELSE NoHandle])

\* directory entries as a block can hold them: unused, naming hello.txt,
\* and naming an inode number the volume does not have under a name that
\* fills the buffer to its last byte
EntryImages ==
    {ZeroFile, [inode |-> HelloIno, filename |-> NameHello],
     [inode |-> SIMPLEFS_MAX_INODES, filename |-> NameLong]}

\* the directory blocks with any count and any of these entries
DirBlockImages ==
    {[nr_files |-> n, files |-> f, text |-> "zero"] :
        n \in 0 .. SIMPLEFS_MAX_SUBFILES, f \in [Slots -> EntryImages]}

\* a mounted volume whose root directory block holds any of these images
InitAnyDirBlock ==
    \E dblock \in DirBlockImages :
        InitBlocks(MkfsSuperblock, MkfsSuperblock, MkfsInodeBitmap, MkfsBlockBitmap,
                   MkfsInodeTable,
                   [i \in 0 .. (NrInodes - 1) |->
                       IF i = RootIno THEN HandleOf(MkfsRootInode) ELSE NoHandle],
                   [MkfsData EXCEPT ![RootBlock] = dblock])

\* nr_inodes as mkfs.simplefs sets it: one bitmap block worth
MkfsNrInodes == SIMPLEFS_BITS_PER_BLOCK

\* inode numbers next to the ends of the blocks that inode_block computes
NextInodes ==
    {k * SIMPLEFS_INODES_PER_BLOCK + d : k \in 0 .. 3, d \in {-1, 0}} \ (-1 .. HelloIno)

\* a volume of MkfsNrInodes inodes on which the inodes below next are
\* allocated, as they are after next - 3 creations: the model keeps the
\* records and handles of the inodes the next MaxCalls calls can touch
InitManyInodes ==
    \E next \in NextInodes :
        LET sb == [MkfsSuperblock EXCEPT !.nr_inodes = MkfsNrInodes,
                                         !.nr_free_inodes = MkfsNrInodes - next + 1]
            kept == (0 .. HelloIno) \cup (next .. (next + MaxCalls))
        IN InitState(sb, sb, 1 .. (next - 1), MkfsBlockBitmap,
                     [i \in kept |-> IF i = RootIno THEN MkfsRootInode
                                     ELSE IF i = HelloIno THEN MkfsHelloInode ELSE ZeroInode],
                     [i \in kept |-> IF i = RootIno THEN HandleOf(MkfsRootInode) ELSE NoHandle])

\* the effect of a call that ran to the machine record r; the call is
\* recorded field by field
Effect(call, r) ==
    /\ sbi' = r.sbi
    /\ dsb' = r.dsb
    /\ ibm' = r.ibm
    /\ bbm' = r.bbm
    /\ itab' = r.itab
    /\ data' = r.data
    /\ vol' = r.vol
    /\ icache' = r.icache
    /\ stray' = r.stray
    /\ nfaults' = nfaults + Cardinality(r.failed)
    /\ UNCHANGED <<dirfile, procs>>
    /\ last' = [call |-> Call(call.op, call.n, call.dir, call.name, call.mode),
                ret |-> r.ret, note |-> r.note, trace |-> r.trace,
                failed |-> r.failed, new_ino |-> r.new_ino, new_block |-> r.new_block,
                bufs |-> r.bufs,
                pre |-> Snapshot, prev |-> PrevOf(call)]

\* one call, with storage failures injected while the budget lasts
Do(call, budget) ==
    /\ ncalls < MaxCalls
    /\ ncalls' = ncalls + 1
    /\ \E r \in Outcomes(call, M, {}, budget - nfaults) : Effect(call, r)

\* one call without storage failure, while the call budget lasts
DoClean(call) ==
    /\ ncalls < MaxCalls
    /\ ncalls' = ncalls + 1
    /\ Effect(call, Run(call, M, {}))

\* the directories a call can name: the directory handles in the inode cache
Dirs == {i \in DOMAIN icache : icache[i].valid /\ S_ISDIR(icache[i].i_mode)}

AllocInodeCall == Call("alloc_inode", 0, 0, NoName, 0)
AllocBlockCall == Call("alloc_block", 0, 0, NoName, 0)
FreeInodeCall(n) == Call("free_inode", n, 0, NoName, 0)
FreeBlockCall(n) == Call("free_block", n, 0, NoName, 0)
CreateCall(dir, name) == Call("create", 0, dir, name, ModeHello)
MkdirCall(dir, name) == Call("mkdir", 0, dir, name, ModeDir)
LookupCall(dir, name) == Call("lookup", 0, dir, name, 0)
MountCall == Call("mount", 0, 0, NoName, 0)
IgetCall(ino) == Call("iget", ino, 0, NoName, 0)
SyncCall == Call("sync", 0, 0, NoName, 0)
StatfsCall == Call("statfs", 0, 0, NoName, 0)

AllocInode == Do(AllocInodeCall, MaxFaults)

AllocBlock == Do(AllocBlockCall, MaxFaults)

FreeInode == \E n \in 0 .. NrInodes : Do(FreeInodeCall(n), MaxFaults)

FreeBlock == \E n \in 0 .. NrBlocks : Do(FreeBlockCall(n), MaxFaults)

Create == \E dir \in Dirs : \E name \in Names : Do(CreateCall(dir, name), MaxCreateFaults)

Mkdir == \E dir \in Dirs : \E name \in Names : Do(MkdirCall(dir, name), MaxCreateFaults)

\* the same calls, none with a storage failure
CleanCall ==
    \/ DoClean(AllocInodeCall)
    \/ DoClean(AllocBlockCall)
    \/ \E n \in 0 .. NrInodes : DoClean(FreeInodeCall(n))
    \/ \E n \in 0 .. NrBlocks : DoClean(FreeBlockCall(n))
    \/ \E dir \in Dirs : \E name \in Names : DoClean(CreateCall(dir, name))
    \/ \E dir \in Dirs : \E name \in Names : DoClean(MkdirCall(dir, name))

\* the allocator alone, with storage failures
NextAlloc == AllocInode \/ AllocBlock \/ FreeInode \/ FreeBlock

SpecAlloc == Init /\ [][NextAlloc]_vars

\* what the host can reach: create and mkdir, with storage failures
NextCreate == Create \/ Mkdir

SpecCreate == Init /\ [][NextCreate]_vars

\* every call in any order, without storage failure
NextClean == CleanCall

SpecClean == Init /\ [][NextClean]_vars

\* the two allocations, without storage failure, over any bitmap content
ScanInodeBitmap == DoClean(AllocInodeCall)

ScanBlockBitmap == DoClean(AllocBlockCall)

NextScan == ScanInodeBitmap \/ ScanBlockBitmap

SpecScan == InitAnyBitmap /\ [][NextScan]_vars

\* allocations, create and mkdir, without storage failure, over any counters
CountedAllocInode == DoClean(AllocInodeCall)

CountedAllocBlock == DoClean(AllocBlockCall)

CountedCreate == \E dir \in Dirs : \E name \in Names : DoClean(CreateCall(dir, name))

CountedMkdir == \E dir \in Dirs : \E name \in Names : DoClean(MkdirCall(dir, name))

NextCounters == CountedAllocInode \/ CountedAllocBlock \/ CountedCreate \/ CountedMkdir

SpecCounters == InitAnyCounters /\ [][NextCounters]_vars

\* lookups among creates and mkdirs, without storage failure
Lookup == \E dir \in Dirs : \E name \in Names : DoClean(LookupCall(dir, name))

LookedUpCreate == \E dir \in Dirs : \E name \in Names : DoClean(CreateCall(dir, name))

LookedUpMkdir == \E dir \in Dirs : \E name \in Names : DoClean(MkdirCall(dir, name))

NextLookup == Lookup \/ LookedUpCreate \/ LookedUpMkdir

SpecLookup == Init /\ [][NextLookup]_vars

\* create, mkdir and lookup with names of every length up to one more than
\* the filename buffer, without storage failure
NamesOfLength == {[i \in 1 .. n |-> "a"] : n \in 1 .. (SIMPLEFS_FILENAME_LEN + 1)}

SizedCreate == \E dir \in Dirs : \E name \in NamesOfLength : DoClean(CreateCall(dir, name))

SizedMkdir == \E dir \in Dirs : \E name \in NamesOfLength : DoClean(MkdirCall(dir, name))

SizedLookup == \E dir \in Dirs : \E name \in NamesOfLength : DoClean(LookupCall(dir, name))

NextNames == SizedCreate \/ SizedMkdir \/ SizedLookup

SpecNames == Init /\ [][NextNames]_vars

\* lookups among creates and mkdirs, with storage failures
FindName == \E dir \in Dirs : \E name \in Names : Do(LookupCall(dir, name), MaxCreateFaults)

FindCreate == \E dir \in Dirs : \E name \in Names : Do(CreateCall(dir, name), MaxCreateFaults)

FindMkdir == \E dir \in Dirs : \E name \in Names : Do(MkdirCall(dir, name), MaxCreateFaults)

NextFind == FindName \/ FindCreate \/ FindMkdir

SpecFind == Init /\ [][NextFind]_vars

\* mount attempts on a device not yet mounted, with failing steps; a
\* failed mount can be tried again
Mounted == icache[RootIno].valid

Mount ==
    /\ ~Mounted
    /\ Do(MountCall, MaxFaults)

NextMount == Mount

SpecMount == InitUnmounted /\ [][NextMount]_vars

\* allocations and frees with storage failures, among syncs and free-space
\* queries with storage failures
SyncAllocInode == Do(AllocInodeCall, MaxFaults)

SyncAllocBlock == Do(AllocBlockCall, MaxFaults)

SyncFreeInode == \E n \in 1 .. (NrInodes - 1) : Do(FreeInodeCall(n), MaxFaults)

SyncFreeBlock == \E n \in DataBlocks : Do(FreeBlockCall(n), MaxFaults)

Sync == Do(SyncCall, MaxFaults)

Statfs == Do(StatfsCall, MaxFaults)

NextSync ==
    SyncAllocInode \/ SyncAllocBlock \/ SyncFreeInode \/ SyncFreeBlock \/ Sync \/ Statfs

SpecSync == Init /\ [][NextSync]_vars

\* simplefs_iget on every inode number of the volume and on the first one
\* past SIMPLEFS_MAX_INODES
IgetInputs == (0 .. (NrInodes - 1)) \cup {SIMPLEFS_MAX_INODES}

Iget == \E ino \in IgetInputs : Do(IgetCall(ino), MaxFaults)

NextIget == Iget

SpecIget == InitAnyInode /\ [][NextIget]_vars

\* create and mkdir, without storage failure, on a volume of MkfsNrInodes
\* inodes
TableCreate == \E dir \in Dirs : \E name \in Names : DoClean(CreateCall(dir, name))

TableMkdir == \E dir \in Dirs : \E name \in Names : DoClean(MkdirCall(dir, name))

NextTable == TableCreate \/ TableMkdir

SpecTable == InitManyInodes /\ [][NextTable]_vars

\* a consumer lists a directory that create and mkdir have filled: it
\* opens the directory once, and every call resumes from the cursor the
\* call before it left
ListedCreate ==
    /\ ~dirfile.open
    /\ \E dir \in Dirs : \E name \in Names : DoClean(CreateCall(dir, name))

ListedMkdir ==
    /\ ~dirfile.open
    /\ \E dir \in Dirs : \E name \in Names : DoClean(MkdirCall(dir, name))

Opendir ==
    /\ ~dirfile.open
    /\ \E dir \in Dirs : \E room \in 1 .. MaxRoom :
           dirfile' = [NoDirFile EXCEPT !.open = TRUE, !.ino = dir, !.room = room]
    /\ UNCHANGED <<sbi, dsb, ibm, bbm, itab, data, vol, icache, stray, nfaults, ncalls, procs,
                 last>>

\* one call of simplefs_iterate by the consumer; the listing is done when
\* a call succeeds and hands over nothing
IterateWith(F) ==
    /\ dirfile.open
    /\ LET r == simplefs_iterate(M, F, dirfile.ino, dirfile.pos, dirfile.room)
       IN /\ dirfile' = [dirfile EXCEPT !.pos = r.pos,
                                        !.listed = @ \o r.out,
                                        !.done = (r.ret.err = "OK" /\ r.out = <<>>),
                                        !.from = dirfile.pos,
                                        !.ret = r.ret,
                                        !.out = r.out]
          /\ nfaults' = nfaults + Cardinality(r.failed)
    /\ UNCHANGED <<sbi, dsb, ibm, bbm, itab, data, vol, icache, stray, ncalls, procs, last>>

Iterate == IterateWith({})

IterateReadFails ==
    /\ nfaults < MaxFaults
    /\ IterateWith({<<"it", "read">>})

NextReaddir == ListedCreate \/ ListedMkdir \/ Opendir \/ Iterate \/ IterateReadFails

SpecReaddir == Init /\ [][NextReaddir]_vars /\ WF_vars(Iterate)

\* a consumer that sets the cursor of the root directory anywhere, the
\* positions past the last one included, calls simplefs_iterate from there,
\* and before that looks up to MaxLookups names up
Seek ==
    /\ ~dirfile.open
    /\ \E pos \in 0 .. (SIMPLEFS_MAX_SUBFILES + 3) : \E room \in 1 .. MaxRoom :
           dirfile' = [NoDirFile EXCEPT !.open = TRUE, !.ino = RootIno, !.room = room,
                                        !.pos = pos]
    /\ UNCHANGED <<sbi, dsb, ibm, bbm, itab, data, vol, icache, stray, nfaults, ncalls, procs,
                 last>>

SeekLookup ==
    /\ ~dirfile.open
    /\ ncalls < MaxLookups
    /\ \E name \in Names : DoClean(LookupCall(RootIno, name))

NextCursor == Seek \/ Iterate \/ IterateReadFails \/ SeekLookup

SpecCursor == InitAnyDirBlock /\ [][NextCursor]_vars

(* ------------------------ unserialized callers ----------------------- *)
\* two callers, each making one call of simplefs_alloc_inode_num or of
\* simplefs_create in the root, no storage step failing.  The code takes no
\* lock: a caller can be preempted between any two accesses to the shared
\* buffers and counters, so each access is a step of its own.  With
\* procs.serial a caller starts only when the other is not inside its call,
\* which is what a lock around the calls would give.
RaceOps == {"alloc_inode", "create"}

\* the name caller p creates: both fit the filename buffer
RaceName(p) == [i \in 1 .. p |-> "a"]

Running(p) == procs.p[p].pc \notin {"idle", "done"}

InitRace ==
    \E serial \in BOOLEAN :
        InitProcs(MkfsSuperblock, MkfsSuperblock, MkfsInodeBitmap, MkfsBlockBitmap,
                  MkfsInodeTable,
                  [i \in 0 .. (NrInodes - 1) |->
                      IF i = RootIno THEN HandleOf(MkfsRootInode) ELSE NoHandle],
                  MkfsData, [NoProcs EXCEPT !.serial = serial])

InodeSteps == {"pre", "i_check", "i_scan", "i_set", "i_load", "i_store", "i_sb"}

BlockSteps == {"b_check", "b_scan", "b_set", "b_load", "b_store", "b_sb"}

DirectorySteps == {"d_read", "d_write", "cl_block", "cl_inode"}

RecordSteps == {"rec", "zero", "iget"}

\* the next step of caller p: the machine record it leaves and the caller
RaceStep(p) ==
    LET q == procs.p[p]
        m == M
        dblock == m.data[m.icache[RootIno].ei_block]
        g == simplefs_iget(m, {}, q.ino)
    IN CASE q.pc = "pre" ->
              IF m.sbi.nr_free_inodes = 0 \/ m.sbi.nr_free_blocks = 0
              THEN [m |-> m, q |-> [q EXCEPT !.pc = "done", !.ret = Err("ENOSPC")]]
              ELSE [m |-> m, q |-> [q EXCEPT !.pc = "i_check"]]
         [] q.pc = "i_check" ->
              IF m.sbi.nr_free_inodes = 0
              THEN [m |-> m, q |-> [q EXCEPT !.pc = "done", !.ret = Err("ENOSPC")]]
              ELSE [m |-> m, q |-> [q EXCEPT !.pc = "i_scan"]]
         [] q.pc = "i_scan" ->
              IF ScanInode(m) < 0
              THEN [m |-> m, q |-> [q EXCEPT !.pc = "done", !.ret = Err("ENOSPC")]]
              ELSE [m |-> m, q |-> [q EXCEPT !.pc = "i_set", !.ino = ScanInode(m)]]
         [] q.pc = "i_set" ->
              [m |-> [m EXCEPT !.ibm = set_bit_in_buffer(@, q.ino)],
               q |-> [q EXCEPT !.pc = "i_load"]]
         [] q.pc = "i_load" ->
              [m |-> m, q |-> [q EXCEPT !.pc = "i_store", !.cnt = m.sbi.nr_free_inodes]]
         [] q.pc = "i_store" ->
              [m |-> [m EXCEPT !.sbi.nr_free_inodes = q.cnt - 1],
               q |-> [q EXCEPT !.pc = "i_sb"]]
         [] q.pc = "i_sb" ->
              [m |-> [m EXCEPT !.dsb = UpdateSbFields(m)],
               q |-> IF q.op = "alloc_inode"
                     THEN [q EXCEPT !.pc = "done", !.ret = Ok(q.ino)]
                     ELSE [q EXCEPT !.pc = "b_check"]]
         [] q.pc = "b_check" ->
              IF m.sbi.nr_free_blocks = 0
              THEN [m |-> m, q |-> [q EXCEPT !.pc = "cl_inode", !.ret = Err("ENOSPC")]]
              ELSE [m |-> m, q |-> [q EXCEPT !.pc = "b_scan"]]
         [] q.pc = "b_scan" ->
              IF ScanBlock(m) < 0
              THEN [m |-> m, q |-> [q EXCEPT !.pc = "cl_inode", !.ret = Err("ENOSPC")]]
              ELSE [m |-> m, q |-> [q EXCEPT !.pc = "b_set", !.blk = ScanBlock(m)]]
         [] q.pc = "b_set" ->
              [m |-> [m EXCEPT !.bbm = set_bit_in_buffer(@, q.blk)],
               q |-> [q EXCEPT !.pc = "b_load"]]
         [] q.pc = "b_load" ->
              [m |-> m, q |-> [q EXCEPT !.pc = "b_store", !.cnt = m.sbi.nr_free_blocks]]
         [] q.pc = "b_store" ->
              [m |-> [m EXCEPT !.sbi.nr_free_blocks = q.cnt - 1],
               q |-> [q EXCEPT !.pc = "b_sb"]]
         [] q.pc = "b_sb" ->
              [m |-> [m EXCEPT !.dsb = UpdateSbFields(m)], q |-> [q EXCEPT !.pc = "d_read"]]
         [] q.pc = "d_read" ->
              IF dblock.nr_files >= SIMPLEFS_MAX_SUBFILES
              THEN [m |-> m, q |-> [q EXCEPT !.pc = "cl_block", !.ret = Err("ENOSPC")]]
              ELSE IF CreateCollides(dblock, q.name)
              THEN [m |-> m, q |-> [q EXCEPT !.pc = "cl_block", !.ret = Err("EEXIST")]]
              ELSE [m |-> m, q |-> [q EXCEPT !.pc = "d_write", !.nr = dblock.nr_files]]
         [] q.pc = "d_write" ->
              [m |-> [m EXCEPT !.data[m.icache[RootIno].ei_block] =
                         AppendEntry([dblock EXCEPT !.nr_files = q.nr], q.name, q.ino)],
               q |-> [q EXCEPT !.pc = "rec"]]
         [] q.pc = "rec" ->
              [m |-> PutInode(m, q.ino, FileInode(ModeHello, q.blk)),
               q |-> [q EXCEPT !.pc = "zero"]]
         [] q.pc = "zero" ->
              [m |-> [m EXCEPT !.data[q.blk] = ZeroBlock], q |-> [q EXCEPT !.pc = "iget"]]
         [] q.pc = "iget" ->
              IF g.ok THEN [m |-> g, q |-> [q EXCEPT !.pc = "done", !.ret = Ok(0)]]
              ELSE [m |-> g, q |-> [q EXCEPT !.pc = "cl_block", !.ret = g.ret]]
         [] q.pc = "cl_block" ->
              [m |-> simplefs_free_block_num(m, {}, "fb", q.blk),
               q |-> [q EXCEPT !.pc = "cl_inode"]]
         [] q.pc = "cl_inode" ->
              [m |-> simplefs_free_inode_num(m, {}, "fi", q.ino),
               q |-> [q EXCEPT !.pc = "done"]]

\* caller p takes its next step
RaceTake(p) ==
    LET t == RaceStep(p)
    IN /\ sbi' = t.m.sbi
       /\ dsb' = t.m.dsb
       /\ ibm' = t.m.ibm
       /\ bbm' = t.m.bbm
       /\ itab' = t.m.itab
       /\ data' = t.m.data
       /\ vol' = t.m.vol
       /\ icache' = t.m.icache
       /\ stray' = t.m.stray
       /\ procs' = [procs EXCEPT !.p[p] = t.q]
       /\ UNCHANGED <<nfaults, ncalls, dirfile, last>>

RaceStart ==
    \E p \in Procs : \E op \in RaceOps :
        /\ procs.p[p].pc = "idle"
        /\ procs.serial => \A o \in Procs \ {p} : ~Running(o)
        /\ procs' = [procs EXCEPT !.p[p] =
                        [IdleProc EXCEPT !.op = op, !.name = RaceName(p),
                                         !.pc = IF op = "create" THEN "pre" ELSE "i_check"]]
        /\ UNCHANGED <<sbi, dsb, ibm, bbm, itab, data, vol, icache, stray, nfaults, ncalls,
                       dirfile, last>>

RaceAllocInode == \E p \in Procs : procs.p[p].pc \in InodeSteps /\ RaceTake(p)

RaceAllocBlock == \E p \in Procs : procs.p[p].pc \in BlockSteps /\ RaceTake(p)

RaceDirectory == \E p \in Procs : procs.p[p].pc \in DirectorySteps /\ RaceTake(p)

RaceRecord == \E p \in Procs : procs.p[p].pc \in RecordSteps /\ RaceTake(p)

NextRace == RaceStart \/ RaceAllocInode \/ RaceAllocBlock \/ RaceDirectory \/ RaceRecord

SpecRace == InitRace /\ [][NextRace]_vars

(* ---------------------------- properties ----------------------------- *)
FreeCounters(s) == <<s.nr_free_inodes, s.nr_free_blocks>>

\* both bitmaps and both in-memory free counters are as before the last call
Restored ==
    /\ ibm = last.pre.ibm
    /\ bbm = last.pre.bbm
    /\ FreeCounters(sbi) = FreeCounters(last.pre.sbi)

\* the parent directory block of the last create / mkdir, before and after it
ParentBefore == last.pre.data[last.pre.icache[last.call.dir].ei_block]

ParentNow == data[last.pre.icache[last.call.dir].ei_block]

\* a bitmap read or write issued by a rollback: the frees of the cleanup
\* labels, and the re-read and re-persist inside the allocators
RollbackStep(l) ==
    \/ l[1] \in {"fb", "fi"} /\ l[2] \in {"bm_read", "bm_write"}
    \/ l[2] \in {"rb_read", "rb_write"}

RollbackRan == \A l \in last.failed : ~RollbackStep(l)

ClearBits(bitmap, from, to) == Cardinality({i \in from .. to : i \notin bitmap})

LowestClear(bitmap, from, to, n) ==
    /\ n \in from .. to
    /\ n \notin bitmap
    /\ \A j \in from .. (n - 1) : j \in bitmap

C2_CountersMatchBitmaps ==
    /\ sbi.nr_free_inodes = dsb.nr_free_inodes
    /\ sbi.nr_free_inodes = ClearBits(ibm, 1, sbi.nr_inodes - 1)
    /\ sbi.nr_free_blocks = ClearBits(bbm, sbi.first_data_block, sbi.nr_blocks - 1)

\* the last create / mkdir returned an error after its inode number was allocated
FailedAfterInodeAllocated ==
    /\ last.call.op \in {"create", "mkdir"}
    /\ last.ret.err # "OK"
    /\ last.new_ino >= 0

HasName(dblock, name) ==
    \E i \in 0 .. (dblock.nr_files - 1) : dblock.files[i].filename = name

\* create was called, no storage step failing, with a name the parent holds
CreateOfExistingName ==
    /\ last.call.op = "create"
    /\ last.failed = {}
    /\ HasName(ParentBefore, last.call.name)

\* the call left counters, bitmaps and the parent's nr_files alone and
\* failed with EEXIST
RefusedAsExisting ==
    /\ last.ret.err = "EEXIST"
    /\ Restored
    /\ ParentNow.nr_files = ParentBefore.nr_files

\* an inode number and a block can be allocated and the parent has a free slot
ReachesCollisionScan ==
    /\ last.pre.sbi.nr_free_inodes # 0
    /\ last.pre.sbi.nr_free_blocks # 0
    /\ ClearBits(last.pre.ibm, 1, last.pre.sbi.nr_inodes - 1) # 0
    /\ ClearBits(last.pre.bbm, last.pre.sbi.first_data_block, last.pre.sbi.nr_blocks - 1) # 0
    /\ ParentBefore.nr_files < SIMPLEFS_MAX_SUBFILES

\* C4 as stated: create (no storage step failing) with a name that exists
\* among the parent's entries fails with AlreadyExists, and both counters,
\* both bitmaps and the parent's nr_files equal their values before the call.
C4_ExistingNameRefused == CreateOfExistingName => RefusedAsExisting

\* C4 as amended: create, no storage step failing, with a name that exists
\* among the parent's entries, on a volume where an inode number and a block
\* can be allocated and in a parent that is not full, fails with AlreadyExists, and both
\* counters, both bitmaps and the parent's nr_files equal their values
\* before the call.
C4_ExistingNameRefusedWithRoom ==
    (CreateOfExistingName /\ ReachesCollisionScan) => RefusedAsExisting

C4_Witness ==
    /\ CreateOfExistingName
    /\ last.ret.err = "EEXIST"
    /\ last.new_ino >= 0
    /\ last.new_block >= 0
    /\ <<"fb", "bm_write">> \in Range(last.trace)
    /\ Restored

\* the read or the write of the inode table block failed in mkdir
MkdirInodeWriteFailed ==
    /\ last.call.op = "mkdir"
    /\ \/ <<"mk", "ino_read">> \in last.failed
       \/ <<"mk", "ino_write">> \in last.failed

HasEntry(dblock, name, ino) ==
    \E i \in Slots : /\ i < dblock.nr_files
                     /\ dblock.files[i] = [inode |-> ino, filename |-> name]

SbPersistFailed ==
    \/ /\ last.call.op = "alloc_inode"
       /\ \/ <<"ai", "sb_read">> \in last.failed
          \/ <<"ai", "sb_write">> \in last.failed
    \/ /\ last.call.op = "alloc_block"
       /\ \/ <<"ab", "sb_read">> \in last.failed
          \/ <<"ab", "sb_write">> \in last.failed

\* the bit the allocation set
BitSet ==
    IF last.call.op = "alloc_inode"
    THEN ScanLoop(last.pre.ibm, InodeScanStart, last.pre.sbi.nr_inodes)
    ELSE ScanLoop(last.pre.bbm, last.pre.sbi.first_data_block, last.pre.sbi.nr_blocks)

RolledBack ==
    /\ last.ret.err = "EIO"
    /\ BitSet \notin (IF last.call.op = "alloc_inode" THEN ibm ELSE bbm)
    /\ ibm = last.pre.ibm
    /\ bbm = last.pre.bbm
    /\ FreeCounters(sbi) = FreeCounters(last.pre.sbi)

AllocatorOps == {"alloc_inode", "alloc_block", "free_inode", "free_block"}

\* C7: whenever an allocation or a free returns after changing a bit,
\* stable storage holds the changed bitmap block and a superblock whose
\* free counters equal the in-memory counters.
C7_ReturnsOnlyWhenStable ==
    (/\ last.call.op \in AllocatorOps
     /\ ibm # last.pre.ibm \/ bbm # last.pre.bbm)
    => /\ SIMPLEFS_INODE_BITMAP_BLOCK \notin vol
       /\ SIMPLEFS_BLOCK_BITMAP_BLOCK \notin vol
       /\ SIMPLEFS_SUPERBLOCK_BLOCK \notin vol
       /\ FreeCounters(dsb) = FreeCounters(sbi)

\* C8: a call one of whose block reads, block writes or flushes failed
\* returns an I/O error; none reports success or returns nothing.
C8_FailureIsFatal ==
    (last.call.op \in AllocatorOps /\ last.failed # {}) => last.ret.err = "EIO"

C10_ReservedNeverReturned ==
    /\ (last.call.op = "alloc_inode" /\ last.ret.err = "OK") => last.ret.val # 0
    /\ (last.call.op = "alloc_block" /\ last.ret.err = "OK")
       => last.ret.val >= last.pre.sbi.first_data_block

C10_Witness ==
    /\ last.call.op = "alloc_block"
    /\ last.ret.err = "OK"
    /\ SIMPLEFS_SUPERBLOCK_BLOCK \notin last.pre.bbm
    /\ SIMPLEFS_SUPERBLOCK_BLOCK \notin bbm
    /\ last.ret.val >= SIMPLEFS_FIRST_DATA_BLOCK

\* C11: an inode allocation called while the free-inode counter is 0, and a
\* block allocation called while the free-block counter is 0, fails with
\* ENOSPC and leaves both bitmaps and both counters, in memory and on disk,
\* unchanged.
C11_ZeroCounterRefused ==
    (\/ last.call.op = "alloc_inode" /\ last.pre.sbi.nr_free_inodes = 0
     \/ last.call.op = "alloc_block" /\ last.pre.sbi.nr_free_blocks = 0)
    => /\ last.ret.err = "ENOSPC"
       /\ ibm = last.pre.ibm
       /\ bbm = last.pre.bbm
       /\ FreeCounters(sbi) = FreeCounters(last.pre.sbi)
       /\ FreeCounters(dsb) = FreeCounters(last.pre.dsb)

\* the counter is 0 while the scan range still holds a clear bit
C11_Witness ==
    /\ last.call.op = "alloc_inode"
    /\ last.pre.sbi.nr_free_inodes = 0
    /\ ClearBits(last.pre.ibm, 1, last.pre.sbi.nr_inodes - 1) # 0
    /\ last.ret.err = "ENOSPC"
    /\ last.trace = <<>>
    /\ ibm = last.pre.ibm

\* nothing on the device and no counter changed in the last call
Untouched ==
    /\ ibm = last.pre.ibm
    /\ bbm = last.pre.bbm
    /\ FreeCounters(sbi) = FreeCounters(last.pre.sbi)
    /\ FreeCounters(dsb) = FreeCounters(last.pre.dsb)

\* the last call freed a number in range whose bit was clear
FreeOfClearBit ==
    \/ /\ last.call.op = "free_inode"
       /\ last.call.n \in 1 .. (last.pre.sbi.nr_inodes - 1)
       /\ last.call.n \notin last.pre.ibm
    \/ /\ last.call.op = "free_block"
       /\ last.call.n \in last.pre.sbi.first_data_block .. (last.pre.sbi.nr_blocks - 1)
       /\ last.call.n \notin last.pre.bbm

\* C12: a free of a valid inode or block number whose bit is already clear
\* (no storage step failing) reports "already free" and leaves both
\* bitmaps and the in-memory and on-disk counters unchanged, so a second
\* free of the same number does not increment the counter again.
C12_AlreadyFreeIsNoOp ==
    (FreeOfClearBit /\ last.failed = {})
    => /\ last.note = "already free"
       /\ Untouched

\* the second free of hello.txt's inode number
C12_Witness ==
    /\ last.call.op = "free_inode"
    /\ last.call.n = HelloIno
    /\ HelloIno \notin last.pre.ibm
    /\ last.note = "already free"
    /\ sbi.nr_free_inodes = last.pre.sbi.nr_free_inodes

\* the last call freed a number outside the range the free accepts
FreeOfInvalidNumber ==
    \/ /\ last.call.op = "free_inode"
       /\ last.call.n = 0 \/ last.call.n >= last.pre.sbi.nr_inodes
    \/ /\ last.call.op = "free_block"
       /\ \/ last.call.n < last.pre.sbi.first_data_block
          \/ last.call.n >= last.pre.sbi.nr_blocks

CallInFullParent ==
    /\ last.call.op \in {"create", "mkdir"}
    /\ last.failed = {}
    /\ Len(last.call.name) < SIMPLEFS_FILENAME_LEN
    /\ ParentBefore.nr_files = SIMPLEFS_MAX_SUBFILES

\* C14: create or mkdir of a name that fits, in a parent that already holds
\* SIMPLEFS_MAX_SUBFILES entries (no storage step failing), fails with
\* ENOSPC, and the parent's nr_files and entries, both bitmaps and both
\* free counters are as before the call.
C14_FullParentRefused ==
    CallInFullParent
    => /\ last.ret.err = "ENOSPC"
       /\ ParentNow = ParentBefore
       /\ Restored

\* create reached the full-directory check with an inode and a block allocated
C14_Witness ==
    /\ last.call.op = "create"
    /\ CallInFullParent
    /\ last.ret.err = "ENOSPC"
    /\ last.new_ino >= 0
    /\ last.new_block >= 0
    /\ ParentNow.nr_files = SIMPLEFS_MAX_SUBFILES
    /\ Restored

\* the directory block the consumer lists
ListedBlock == data[icache[dirfile.ino].ei_block]

\* entries 0 .. nr_files - 1 of the listed directory, in index order
EntriesInOrder ==
    [i \in 1 .. ListedBlock.nr_files |->
        [name |-> ListedBlock.files[i - 1].filename, ino |-> ListedBlock.files[i - 1].inode]]

\* what the consumer got so far, "." and ".." left out
ListedEntries == SelectSeq(dirfile.listed, LAMBDA e : e.name \notin {NameDot, NameDotDot})

ListedIsPrefix ==
    /\ Len(ListedEntries) <= Len(EntriesInOrder)
    /\ ListedEntries = SubSeq(EntriesInOrder, 1, Len(ListedEntries))

ListedAll == dirfile.done /\ ListedEntries = EntriesInOrder

\* C15: a consumer that takes up to k >= 1 entries per call and calls
\* simplefs_iterate again and again, each call resuming from the cursor
\* the call before it left, gets entries 0 .. n-1 of the directory in index
\* order, none skipped and none twice: what it has got is always a prefix
\* of the entries, and the listing comes to its end with all of them.
C15_ListsEachEntryOnce ==
    /\ [](dirfile.open => ListedIsPrefix)
    /\ [](dirfile.done => ListedEntries = EntriesInOrder)
    /\ (dirfile.open ~> ListedAll)

\* a full directory listed one entry per call, to its end
C15_Witness ==
    /\ dirfile.open
    /\ dirfile.room = 1
    /\ ListedBlock.nr_files = SIMPLEFS_MAX_SUBFILES
    /\ ListedAll
    /\ Len(dirfile.listed) = SIMPLEFS_MAX_SUBFILES + 2

\* the text mkfs.simplefs writes into block 5 as the content of hello.txt
HelloContent == MkfsData[HelloBlock].text

LookupOfHello ==
    /\ last.call.op = "lookup"
    /\ last.call.dir = RootIno
    /\ last.call.name = NameHello

\* C16: on the volume mkfs.simplefs formats, once mounted and whatever
\* creates, mkdirs and lookups ran before, lookup of the name of hello.txt
\* in the root returns inode 2, its handle has the size mkfs took from the
\* length of the content, and reading its page gives exactly that many
\* bytes of exactly that content.
C16_LookupFindsHello ==
    LookupOfHello
    => /\ last.ret = Ok(HelloIno)
       /\ icache[HelloIno].valid
       /\ S_ISREG(icache[HelloIno].i_mode)
       /\ icache[HelloIno].i_size = HelloSize
       /\ simplefs_readpage(M, {}, HelloIno) = [text |-> HelloContent, len |-> HelloSize]

\* the first call after mount is the lookup, and it loads the handle
C16_Witness ==
    /\ LookupOfHello
    /\ ncalls = 1
    /\ ~last.pre.icache[HelloIno].valid
    /\ last.ret = Ok(HelloIno)
    /\ icache[HelloIno].ei_block = HelloBlock

\* C17: the image mkfs.simplefs writes (the device as mounted, before any
\* call) has bit 0 of the inode bitmap set, the bits of blocks 0 .. 5 set
\* in the block bitmap, and superblock free counters equal to the clear
\* bits among inode indices 1 .. nr_inodes-1 and among block indices
\* first_data_block .. nr_blocks-1.
C17_ImageIsConsistent ==
    ncalls = 0
    => /\ 0 \in ibm
       /\ \A b \in 0 .. HelloBlock : b \in bbm
       /\ dsb.nr_free_inodes = ClearBits(ibm, 1, dsb.nr_inodes - 1)
       /\ dsb.nr_free_blocks = ClearBits(bbm, dsb.first_data_block, dsb.nr_blocks - 1)

\* the last call was a create or mkdir of a name that fits
CreationOfFittingName ==
    /\ last.call.op \in {"create", "mkdir"}
    /\ Len(last.call.name) < SIMPLEFS_FILENAME_LEN

\* the call was refused for lack of space before it issued any storage
\* step, and nothing changed
RefusedAtPreCheck ==
    /\ last.ret.err = "ENOSPC"
    /\ last.trace = <<>>
    /\ last.new_ino = -1
    /\ Untouched
    /\ itab = last.pre.itab
    /\ data = last.pre.data

\* the lowest value of a free counter before the call
LowestCounterBefore ==
    IF last.pre.sbi.nr_free_inodes < last.pre.sbi.nr_free_blocks
    THEN last.pre.sbi.nr_free_inodes ELSE last.pre.sbi.nr_free_blocks

\* C18 as stated: create and mkdir are refused at the free-space pre-check,
\* before any state change, exactly when a free counter is zero; with both
\* counters nonzero the pre-check lets both operations through.
C18_RefusedIffCounterZero ==
    CreationOfFittingName => (RefusedAtPreCheck <=> LowestCounterBefore = 0)

\* C18: create is refused at the free-space pre-check, before any state
\* change, exactly when a free counter is zero; mkdir is refused there
\* exactly when a free counter is zero or one.
C18_RefusedIffCounterLow ==
    CreationOfFittingName
    => (RefusedAtPreCheck <=>
            LowestCounterBefore <= (IF last.call.op = "mkdir" THEN 1 ELSE 0))

\* mkdir refused with one inode and one block counted free
C18_Witness ==
    /\ last.call.op = "mkdir"
    /\ CreationOfFittingName
    /\ last.pre.sbi.nr_free_inodes = 1
    /\ last.pre.sbi.nr_free_blocks = 1
    /\ RefusedAtPreCheck

\* the last call was a create or mkdir that returned 0
Created ==
    /\ last.call.op \in {"create", "mkdir"}
    /\ last.ret.err = "OK"

\* the inode record of the number the last call allocated
NewRecord == itab[last.new_ino]

\* C19: after a create that returned 0 the record of the new inode has
\* regular-file mode, size 0, link count 1 and points at the allocated
\* block; after a mkdir that returned 0 it has directory mode, size one
\* block, link count 2 and points at the allocated block, and that block
\* is a directory block with nr_files 0 and every entry zero.
C19_NewRecordIsInitialised ==
    Created
    => /\ last.new_ino \in 1 .. (NrInodes - 1)
       /\ last.new_block \in DataBlocks
       /\ NewRecord.ei_block = last.new_block
       /\ last.call.op = "create"
          => /\ NewRecord.i_mode = [fmt |-> "S_IFREG", perm |-> last.call.mode]
             /\ NewRecord.i_size = 0
             /\ NewRecord.i_nlink = 1
       /\ last.call.op = "mkdir"
          => /\ NewRecord.i_mode = [fmt |-> "S_IFDIR", perm |-> ModeDir]
             /\ NewRecord.i_size = SIMPLEFS_BLOCK_SIZE
             /\ NewRecord.i_nlink = 2
             /\ data[last.new_block].nr_files = 0
             /\ \A i \in Slots : data[last.new_block].files[i] = ZeroFile

\* a mkdir that returned 0 although a flush failed on the way
C19_Witness ==
    /\ Created
    /\ last.call.op = "mkdir"
    /\ last.failed # {}
    /\ last.pre.itab[last.new_ino] = ZeroInode
    /\ NewRecord.i_nlink = 2
    /\ data[last.new_block].nr_files = 0

\* C20: a create or mkdir that returned 0 has written the entry (new inode
\* number, name) at the index the parent's nr_files had, has raised
\* nr_files by one, has left every other entry as it was, and has lowered
\* the free-inode counter and the free-block counter by one each, in
\* memory and, with them, on the device.
C20_EntryAppended ==
    Created
    => /\ ParentBefore.nr_files < SIMPLEFS_MAX_SUBFILES
       /\ ParentNow.nr_files = ParentBefore.nr_files + 1
       /\ ParentNow.files[ParentBefore.nr_files] =
              [inode |-> last.new_ino, filename |-> last.call.name]
       /\ \A i \in Slots : i # ParentBefore.nr_files
                           => ParentNow.files[i] = ParentBefore.files[i]
       /\ sbi.nr_free_inodes = last.pre.sbi.nr_free_inodes - 1
       /\ sbi.nr_free_blocks = last.pre.sbi.nr_free_blocks - 1
       /\ FreeCounters(dsb) = FreeCounters(sbi)

\* a create into a parent that already held an entry
C20_Witness ==
    /\ Created
    /\ last.call.op = "create"
    /\ ParentBefore.nr_files = 1
    /\ ParentNow.nr_files = 2
    /\ ParentNow.files[1].inode = last.new_ino
    /\ ParentNow.files[0] = ParentBefore.files[0]

\* the last call took a name
NamedCall == last.call.op \in {"create", "mkdir", "lookup"}

MatchingEntries(dblock, name) ==
    {i \in Slots : /\ i < dblock.nr_files
                   /\ dblock.files[i].inode # 0
                   /\ dblock.files[i].inode < sbi.nr_inodes
                   /\ dblock.files[i].filename = name}

FirstMatch(dblock, name) ==
    CHOOSE i \in MatchingEntries(dblock, name) : \A j \in MatchingEntries(dblock, name) : i <= j

\* C22: a lookup of a name that fits, no storage step failing during it,
\* in a directory with nr_files <= SIMPLEFS_MAX_SUBFILES returns the inode
\* of the matching entry of lowest index, and reports the name as not
\* found exactly when no entry matches.
C22_LookupReturnsFirstMatch ==
    (/\ last.call.op = "lookup"
     /\ last.failed = {}
     /\ Len(last.call.name) < SIMPLEFS_FILENAME_LEN
     /\ ParentBefore.nr_files <= SIMPLEFS_MAX_SUBFILES)
    => IF MatchingEntries(ParentBefore, last.call.name) = {}
       THEN last.ret = Ok(0)
       ELSE last.ret = Ok(ParentBefore.files[FirstMatch(ParentBefore, last.call.name)].inode)

\* the superblock on the device fails one of the checks the claim names
BadSuperblock(sb) ==
    \/ sb.magic # SIMPLEFS_MAGIC
    \/ sb.first_data_block >= sb.nr_blocks
    \/ sb.inode_bitmap_block >= sb.nr_blocks
    \/ sb.block_bitmap_block >= sb.nr_blocks

\* C23: a mount of a device whose superblock has a wrong magic, or
\* first_data_block >= nr_blocks, or a bitmap block index >= nr_blocks
\* returns an error; a mount that returns an error leaves no in-memory
\* superblock info and no root handle and the device as it was; a mount
\* that returns 0 leaves every in-memory field equal to the on-disk field.
C23_MountValidates ==
    last.call.op = "mount"
    => /\ BadSuperblock(last.pre.dsb) => last.ret.err \notin {"OK", "void"}
       /\ last.ret.err # "OK" => /\ ~Mounted
                                 /\ sbi = NoSbInfo
                                 /\ dsb = last.pre.dsb
                                 /\ itab = last.pre.itab
       /\ last.ret.err = "OK" => /\ Mounted
                                 /\ sbi = dsb
                                 /\ dsb = last.pre.dsb

\* a superblock whose only fault is a bitmap block index equal to nr_blocks
C23_Witness ==
    /\ last.call.op = "mount"
    /\ last.failed = {}
    /\ last.pre.dsb.magic = SIMPLEFS_MAGIC
    /\ last.pre.dsb.first_data_block < last.pre.dsb.nr_blocks
    /\ last.pre.dsb.inode_bitmap_block < last.pre.dsb.nr_blocks
    /\ last.pre.dsb.block_bitmap_block = last.pre.dsb.nr_blocks
    /\ last.ret = Err("EINVAL")
    /\ ~Mounted

\* C24: the inode record a create or mkdir writes for the inode number it
\* allocated lies in the inode table block: no record is written into the
\* superblock, a bitmap block or a data block.
C24_RecordInsideInodeTable ==
    /\ stray = {}
    /\ (last.call.op \in {"create", "mkdir"} /\ last.new_ino >= 1)
       => inode_block(last.new_ino) = SIMPLEFS_INODE_TABLE_BLOCK

\* the position of the storage step l in the steps of the last call, 0
\* when the call did not issue it
StepAt(l) ==
    IF \E i \in DOMAIN last.trace : last.trace[i] = l
    THEN CHOOSE i \in DOMAIN last.trace :
             last.trace[i] = l /\ \A j \in DOMAIN last.trace : last.trace[j] = l => i <= j
    ELSE 0

\* the last call issued the steps of order in this order: a step was
\* issued only after every step before it, and all were if the call
\* returned 0
IssuedInOrder(order) ==
    /\ \A i, j \in DOMAIN order :
          (i < j /\ StepAt(order[j]) # 0)
          => (StepAt(order[i]) # 0 /\ StepAt(order[i]) < StepAt(order[j]))
    /\ last.ret.err = "OK" => \A i \in DOMAIN order : StepAt(order[i]) # 0

\* allocate inode, allocate block, read the parent, persist the entry,
\* write the inode record, zero the data block, for the function whose
\* steps are labelled c
EntryFirstOrder(c) ==
    << <<"ai", "bm_write">>, <<"ab", "bm_write">>, <<c, "par_read">>, <<c, "par_write">>,
       <<c, "ino_write">>, <<c, "dat_write">> >>

\* the order of simplefs_mkdir: the parent is read and checked first, the
\* inode record and the data block are written before the entry
RecordFirstOrder ==
    << <<"mk", "chk_read">>, <<"ai", "bm_write">>, <<"ab", "bm_write">>,
       <<"mk", "ino_write">>, <<"mk", "dat_write">>, <<"mk", "par_read">>,
       <<"mk", "par_write">> >>

CreateFailedAfterEntry ==
    /\ last.call.op = "create"
    /\ last.ret.err # "OK"
    /\ \E l \in last.failed :
          l \in {<<"cr", "ino_read">>, <<"cr", "ino_write">>,
                 <<"cr", "dat_read">>, <<"cr", "dat_write">>}

\* C26: when create fails in the write of the inode record or in the
\* initialisation of the data block, the parent keeps the entry: its
\* nr_files is one greater than before the call and the entry at its last
\* index carries the name and the inode number of the call, and that inode
\* number and the block are free again once the cleanup's own steps succeed.
C26_EntryOutlivesFailedCreate ==
    CreateFailedAfterEntry
    => /\ ParentNow.nr_files = ParentBefore.nr_files + 1
       /\ ParentNow.files[ParentNow.nr_files - 1] =
              [inode |-> last.new_ino, filename |-> last.call.name]
       /\ RollbackRan => /\ last.new_ino \notin ibm
                         /\ last.new_block \notin bbm
                         /\ FreeCounters(sbi) = FreeCounters(last.pre.sbi)

\* the inode record write failed: the entry names a free inode with no record
C26_Witness ==
    /\ CreateFailedAfterEntry
    /\ <<"cr", "ino_write">> \in last.failed
    /\ ParentNow.files[ParentBefore.nr_files].inode = last.new_ino
    /\ last.new_ino \notin ibm
    /\ itab[last.new_ino] = ZeroInode

\* the directory view of a block is well formed
WellFormedDirBlock(dblock) ==
    /\ dblock.nr_files <= SIMPLEFS_MAX_SUBFILES
    /\ \A i \in Slots :
          IF i < dblock.nr_files
          THEN dblock.files[i].inode # 0 /\ dblock.files[i].filename # NoName
          ELSE dblock.files[i] = ZeroFile

StoredInode == last.pre.itab[last.call.n]

\* the stored record is one the inode reader has to refuse
RefusableInode ==
    \/ last.call.n = 0
    \/ last.call.n >= last.pre.sbi.nr_inodes
    \/ /\ ~S_ISREG(StoredInode.i_mode)
       /\ ~S_ISDIR(StoredInode.i_mode)
    \/ /\ StoredInode.ei_block # 0
       /\ \/ StoredInode.ei_block < last.pre.sbi.first_data_block
          \/ StoredInode.ei_block >= last.pre.sbi.nr_blocks

\* C28: reading an inode fails and produces no handle when the inode
\* number is 0 or >= nr_inodes, when the stored mode is neither regular
\* file nor directory, or when the stored data-block pointer is nonzero and
\* outside [first_data_block, nr_blocks).
C28_IgetValidates ==
    (last.call.op = "iget" /\ RefusableInode)
    => /\ last.ret.err # "OK"
       /\ last.call.n \in DOMAIN icache => ~icache[last.call.n].valid

\* the last call of simplefs_iterate started past "." and ".." and returned 0
IteratedEntries ==
    /\ dirfile.open
    /\ dirfile.from >= 2
    /\ dirfile.ret.err = "OK"

\* the indices from the cursor of the last call to nr_files whose entry has
\* a valid inode number
ValidFromCursor ==
    {i \in Slots : /\ dirfile.from - 2 <= i
                   /\ i < ListedBlock.nr_files
                   /\ ListedBlock.files[i].inode # 0
                   /\ ListedBlock.files[i].inode < sbi.nr_inodes}

\* those among them the consumer accepts: the first dirfile.room
AcceptedFromCursor ==
    {i \in ValidFromCursor :
        Cardinality({j \in ValidFromCursor : j < i}) < dirfile.room}

\* where the scan stops: at the first valid entry the consumer refuses, at
\* nr_files otherwise
StopIndex ==
    IF AcceptedFromCursor # ValidFromCursor
    THEN CHOOSE i \in ValidFromCursor \ AcceptedFromCursor :
             \A j \in ValidFromCursor \ AcceptedFromCursor : i <= j
    ELSE IF dirfile.from - 2 > ListedBlock.nr_files THEN dirfile.from - 2
    ELSE ListedBlock.nr_files

\* C29: a call of simplefs_iterate from cursor c hands over exactly the
\* valid entries with index in [c, nr_files) that the consumer accepts: an
\* entry whose inode number is 0 or invalid is skipped while the cursor
\* advances past it, and the scan stops only at nr_files or when the
\* consumer refuses an entry.
C29_IterateSkipsInvalid ==
    IteratedEntries
    => /\ {e.ino : e \in Range(dirfile.out)} =
              {ListedBlock.files[i].inode : i \in AcceptedFromCursor}
       /\ Len(dirfile.out) = Cardinality(AcceptedFromCursor)
       /\ dirfile.pos = StopIndex + 2

\* the device is as it was before the last call: the data blocks, the
\* bitmaps, the inode table and the free counters in memory and on disk
DeviceAsBefore ==
    /\ data = last.pre.data
    /\ ibm = last.pre.ibm
    /\ bbm = last.pre.bbm
    /\ itab = last.pre.itab
    /\ FreeCounters(sbi) = FreeCounters(last.pre.sbi)
    /\ FreeCounters(dsb) = FreeCounters(last.pre.dsb)

\* C30: simplefs_iterate and simplefs_lookup change nothing but the
\* caller's cursor: from every start position, the positions at and past
\* the end included, the directory block, the bitmaps, the inode table and
\* the free counters are after the call what they were before it, and
\* simplefs_iterate called again from the same cursor hands over the same
\* entries.
C30_ReadersChangeNothing ==
    /\ last.call.op = "lookup" => DeviceAsBefore
    /\ (dirfile.open /\ dirfile.from >= 0 /\ dirfile.ret.err = "OK")
       => simplefs_iterate(M, {}, dirfile.ino, dirfile.from, dirfile.room).out = dirfile.out

\* the last call was an allocation whose counter was nonzero and whose
\* allocatable range had no clear bit
ScanFindsNothing ==
    \/ /\ last.call.op = "alloc_inode"
       /\ last.pre.sbi.nr_free_inodes # 0
       /\ ClearBits(last.pre.ibm, 1, last.pre.sbi.nr_inodes - 1) = 0
    \/ /\ last.call.op = "alloc_block"
       /\ last.pre.sbi.nr_free_blocks # 0
       /\ ClearBits(last.pre.bbm, last.pre.sbi.first_data_block,
                    last.pre.sbi.nr_blocks - 1) = 0

\* C31: when the free counter is nonzero but the scan finds no clear bit in
\* the allocatable range, simplefs_alloc_inode_num (simplefs_alloc_block_num)
\* fails with ENOSPC and leaves the bitmaps and the counters, in memory and
\* on disk, unchanged.
C31_FullBitmapRefused ==
    ScanFindsNothing
    => /\ last.ret = Err("ENOSPC")
       /\ Restored
       /\ FreeCounters(dsb) = FreeCounters(last.pre.dsb)

\* the inode bitmap is full from 1 on and bit 0 is clear
C31_Witness ==
    /\ ScanFindsNothing
    /\ last.call.op = "alloc_inode"
    /\ 0 \notin last.pre.ibm
    /\ last.ret = Err("ENOSPC")
    /\ sbi.nr_free_inodes = last.pre.sbi.nr_free_inodes

\* the superblock fields that are not free counters
FixedFields(sb) ==
    <<sb.magic, sb.nr_blocks, sb.nr_inodes, sb.inode_bitmap_block, sb.block_bitmap_block,
      sb.first_data_block>>

\* the last call was a simplefs_sync_sb that returned 0
Synced == last.call.op = "sync" /\ last.ret = Ok(0)

\* C32: after a simplefs_sync_sb that returned 0 the free-block and
\* free-inode counters of the superblock on the device equal the in-memory
\* counters, which the call left alone, and every other field of the
\* superblock on the device (magic, total blocks, total inodes, bitmap
\* block indices, first data block) is what it was; the block is on stable
\* storage unless the flush failed.
C32_SyncWritesCounters ==
    Synced
    => /\ FreeCounters(dsb) = FreeCounters(sbi)
       /\ sbi = last.pre.sbi
       /\ FixedFields(dsb) = FixedFields(last.pre.dsb)
       /\ <<"sy", "sb_flush">> \notin last.failed => SIMPLEFS_SUPERBLOCK_BLOCK \notin vol

\* the sync repaired a free-inode counter the device had not got
C32_Witness ==
    /\ Synced
    /\ last.pre.dsb.nr_free_inodes # last.pre.sbi.nr_free_inodes
    /\ dsb.nr_free_inodes = sbi.nr_free_inodes
    /\ dsb.nr_free_inodes # last.pre.dsb.nr_free_inodes

\* the free counters a struct kstatfs reports, inodes first
ReportedCounters(stat) == <<stat.f_ffree, stat.f_bfree>>

\* C33: after simplefs_statfs the in-memory free-block and free-inode
\* counters equal the counters of the superblock on the device and the
\* reported statistics equal them; in every state reached by calls none of
\* whose storage steps failed the query leaves the in-memory counters
\* unchanged.
C33_StatfsRefreshes ==
    last.call.op = "statfs"
    => /\ FreeCounters(sbi) = FreeCounters(dsb)
       /\ ReportedCounters(last.ret.val) = FreeCounters(dsb)
       /\ nfaults = 0 => FreeCounters(sbi) = FreeCounters(last.pre.sbi)

\* the last call was an allocation that failed in simplefs_update_sb
AllocFailedOnPersist ==
    /\ last.call.op \in {"alloc_inode", "alloc_block"}
    /\ last.ret.err = "EIO"
    /\ \E l \in last.failed : l[2] \in {"sb_read", "sb_write"}

\* the machine as it was before the last call
PreM == [M EXCEPT !.sbi = last.pre.sbi, !.dsb = last.pre.dsb, !.ibm = last.pre.ibm,
                  !.bbm = last.pre.bbm, !.itab = last.pre.itab, !.data = last.pre.data,
                  !.vol = last.pre.vol, !.icache = last.pre.icache]

\* C39: after a simplefs_alloc_inode_num or simplefs_alloc_block_num that
\* failed on the superblock persist and was rolled back, simplefs_statfs
\* reports the same free-inode and free-block counts as a simplefs_statfs
\* made before the failed call, and leaves the in-memory counters at the
\* values that earlier query left: the values before the call, which the
\* failed call has restored as well.
C39_FailedAllocInvisibleToStatfs ==
    AllocFailedOnPersist
    => /\ simplefs_statfs(M, {}).ret = simplefs_statfs(PreM, {}).ret
       /\ FreeCounters(simplefs_statfs(M, {}).sbi) =
              FreeCounters(simplefs_statfs(PreM, {}).sbi)
       /\ FreeCounters(sbi) = FreeCounters(last.pre.sbi)
       /\ FreeCounters(last.pre.sbi) = FreeCounters(last.pre.dsb)
          => FreeCounters(simplefs_statfs(M, {}).sbi) = FreeCounters(last.pre.sbi)

\* the superblock write of an inode allocation failed, the bit is clear
\* again, and the counters were those of the device before the call
C39_Witness ==
    /\ AllocFailedOnPersist
    /\ last.call.op = "alloc_inode"
    /\ <<"ai", "sb_write">> \in last.failed
    /\ FreeCounters(last.pre.sbi) = FreeCounters(last.pre.dsb)
    /\ ibm = last.pre.ibm
    /\ simplefs_statfs(M, {}).ret.val.f_ffree = last.pre.sbi.nr_free_inodes

\* caller p has returned from a call that gave it an inode number
Holds(p) ==
    /\ procs.p[p].pc = "done"
    /\ procs.p[p].ret.err = "OK"

\* both callers hold the same inode number
SameInodeTwice == Holds(1) /\ Holds(2) /\ procs.p[1].ino = procs.p[2].ino

\* a free counter differs from the number of clear bits of its bitmap
CounterOffBitmap ==
    \/ sbi.nr_free_inodes # ClearBits(ibm, 0, sbi.nr_inodes - 1)
    \/ sbi.nr_free_blocks # ClearBits(bbm, 0, sbi.nr_blocks - 1)

\* a create returned 0 and the root has no entry of its name
EntryLost ==
    \E p \in Procs : /\ Holds(p)
                     /\ procs.p[p].op = "create"
                     /\ ~CreateCollides(data[RootBlock], procs.p[p].name)

\* both callers are back and the volume is corrupt
RaceCorrupt ==
    /\ \A p \in Procs : procs.p[p].pc = "done"
    /\ SameInodeTwice \/ CounterOffBitmap \/ EntryLost

\* C34: with the two calls serialized no corrupt state is reachable: the
\* callers never hold the same inode number, the free counters equal the
\* numbers of clear bits, and no directory entry is lost.  Without
\* serialization an interleaving of two simplefs_alloc_inode_num calls, or
\* of two simplefs_create calls in the same parent, reaches such a state.
C34_SerializedNeverCorrupt == procs.serial => ~RaceCorrupt

\* two unserialized creates that took the same inode number and wrote their
\* entries at the same index, one of them lost, with the inode counter off
C34_Witness ==
    /\ ~procs.serial
    /\ RaceCorrupt
    /\ \A p \in Procs : procs.p[p].op = "create"
    /\ SameInodeTwice
    /\ EntryLost
    /\ sbi.nr_free_inodes # ClearBits(ibm, 0, sbi.nr_inodes - 1)

\* how often the call logged in bufs did op on buffer head bh
BufferEvents(bufs, op, bh) == Cardinality({i \in DOMAIN bufs : bufs[i] = <<op, bh>>})

\* every release in the log is of a buffer got and not yet released, and
\* no buffer is still held at the end of the log
ReleasedExactlyOnce(bufs) ==
    /\ \A bh \in {bufs[i][2] : i \in DOMAIN bufs} :
           BufferEvents(bufs, "sb_bread", bh) = BufferEvents(bufs, "brelse", bh)
    /\ \A i \in DOMAIN bufs :
           bufs[i][1] = "brelse" =>
               BufferEvents(SubSeq(bufs, 1, i), "brelse", bufs[i][2])
                   <= BufferEvents(SubSeq(bufs, 1, i), "sb_bread", bufs[i][2])

\* C35: on every exit path of simplefs_fill_super, success or error, each
\* buffer obtained by sb_bread is released exactly once: never twice, never
\* left unreleased (the mount case of the claim, which also names the
\* allocations, frees, lookup, iterate, create and mkdir)
C35_BuffersReleasedOnce == last.call.op = "mount" => ReleasedExactlyOnce(last.bufs)

\* the directory entries of the volume: block and index of every entry
\* below nr_files that names an inode
DirEntries ==
    {e \in DataBlocks \X Slots : /\ e[2] < data[e[1]].nr_files
                                 /\ data[e[1]].files[e[2]].inode # 0}

EntryInode(e) == data[e[1]].files[e[2]].inode

\* C36: after any sequence of creates and mkdirs made one after the other,
\* those that failed and were rolled back included, no two directory
\* entries of the volume carry the same inode number.
C36_EntriesNameDistinctInodes ==
    \A e, f \in DirEntries : e # f => EntryInode(e) # EntryInode(f)

\* simplefs_lookup of name in dir, made now without storage failure
LookupNow(dir, name) == simplefs_lookup(M, {}, dir, name)

\* simplefs_create of name in dir, made after that lookup without storage
\* failure
CreateAfterLookup(dir, name) ==
    simplefs_create([M EXCEPT !.data = LookupNow(dir, name).data,
                              !.icache = LookupNow(dir, name).icache],
                    {}, dir, name, ModeHello)

\* the lookup reports not found, the directory is not full and both free
\* counters are nonzero
AbsentWithRoom(dir, name) ==
    /\ LookupNow(dir, name).ret = Ok(0)
    /\ data[icache[dir].ei_block].nr_files < SIMPLEFS_MAX_SUBFILES
    /\ sbi.nr_free_inodes # 0
    /\ sbi.nr_free_blocks # 0

\* C37: in every reachable state, if simplefs_lookup of a name in a
\* directory reports not found, the directory is not full and both free
\* counters are nonzero, then simplefs_create of that name in that
\* directory, made without storage failure, does not fail with EEXIST.
C37_AbsentNameCreatable ==
    \A dir \in Dirs : \A name \in Names :
        AbsentWithRoom(dir, name) => CreateAfterLookup(dir, name).ret # Err("EEXIST")

\* the block of the parent of the last call holds the entry of that call
EntryPersisted ==
    /\ last.call.op \in {"create", "mkdir"}
    /\ last.new_ino > 0
    /\ \E i \in Slots : /\ i < ParentNow.nr_files
                        /\ ParentNow.files[i] =
                               [inode |-> last.new_ino, filename |-> last.call.name]

\* the record of the inode of the last call is that of a file or directory
RecordPersisted ==
    \/ S_ISREG(itab[last.new_ino].i_mode)
    \/ S_ISDIR(itab[last.new_ino].i_mode)

\* C38: wherever simplefs_create or simplefs_mkdir stops, at its end or at a
\* failing step (the cleanup that follows writes neither the directory nor
\* the inode table), if the block of the parent holds the new entry then
\* the inode record the entry names has been written with the mode of a
\* regular file or directory: no entry names an unwritten record.
C38_EntryAfterRecord == EntryPersisted => RecordPersisted

====
